---------------------------- MODULE Spec2Model ----------------------------
(***************************************************************************)
(* The tab-tree DOM cache of the sidebar (webextensions/sidebar/           *)
(* dom-cache.js): the signature codec.  JavaScript strings are TLA+        *)
(* strings read character by character (Len, SubSeq, \o); an object        *)
(* property that is absent is a field that is not in the record's DOMAIN.  *)
(***************************************************************************)
EXTENDS Integers, Sequences, FiniteSets, TLC

(***************************************************************************)
(* Bounds of the model.                                                    *)
(***************************************************************************)
\* the longest tab list handed to getWindowSignature / serialized to a cache
MaxTabs == 3
\* the longest signature string handed directly to matcheSignatures
MaxSigLen == 4
\* the most item fragments in a cached markup blob handed to the trimmer
MaxFragments == 3
\* the largest ignoreCount handed to trimSignature / trimTabsCache
MaxIgnoreCount == 4
\* the most tab records of the window that is restored
MaxRestoredTabs == 3
\* the most restoreTabsFromCacheInternal calls made one after another
MaxCalls == 2

(***************************************************************************)
(* JavaScript primitives used by the module.                               *)
(***************************************************************************)
Min(S) == CHOOSE x \in S : \A y \in S : x <= y

Max(S) == CHOOSE x \in S : \A y \in S : x >= y

\* the character of s at 0-based position i ("" past the end)
charAt(s, i) == IF i >= 0 /\ i < Len(s) THEN SubSeq(s, i + 1, i + 1) ELSE ""

\* s.slice(from, to) on a string, 0-based, to exclusive
substring(s, from, to) == SubSeq(s, from + 1, to)

\* whether s ends with t
endsWithString(s, t) == Len(t) <= Len(s) /\ SubSeq(s, Len(s) - Len(t) + 1, Len(s)) = t

\* whether t occurs in s at 0-based position i
occursAt(s, t, i) == i >= 0 /\ i + Len(t) <= Len(s) /\ SubSeq(s, i + 1, i + Len(t)) = t

RECURSIVE indexOfFrom(_, _, _)
\* String.prototype.indexOf(t, from): the first position >= from where t occurs, else -1
\* (the positions are tried eight at a time)
indexOfFrom(s, t, from) ==
  IF from + Len(t) > Len(s) THEN -1
  ELSE IF occursAt(s, t, from) THEN from
  ELSE LET hits == {i \in (from + 1)..(from + 7) : occursAt(s, t, i)}
       IN IF hits # {} THEN Min(hits) ELSE indexOfFrom(s, t, from + 8)

\* a search that leaves out position 0
indexOfSkippingStart(s, t) == indexOfFrom(s, t, 1)

\* a search that reports the last occurrence instead of the first
lastIndexOf(s, t) ==
  LET hits == {i \in 0..Len(s) : occursAt(s, t, i)}
  IN IF hits = {} THEN -1 ELSE Max(hits)

\* String.prototype.indexOf(t)
indexOf(s, t) == indexOfFrom(s, t, 0)

\* a 1-based search result
arrayIndexOfOneBased(arr, v) ==
  LET hits == {i \in 1..Len(arr) : arr[i] = v}
  IN IF hits = {} THEN -1 ELSE Min(hits)

\* Array.prototype.indexOf(v): the first 0-based index of v in arr, else -1
arrayIndexOf(arr, v) ==
  LET hits == {i \in 1..Len(arr) : arr[i] = v}
  IN IF hits = {} THEN -1 ELSE Min(hits) - 1

RECURSIVE join(_, _)
\* Array.prototype.join(sep) on an array of strings
join(arr, sep) ==
  IF Len(arr) = 0 THEN ""
  ELSE IF Len(arr) = 1 THEN arr[1]
  ELSE arr[1] \o sep \o join(Tail(arr), sep)

RECURSIVE split(_, _)
\* String.prototype.split(sep) for a non-empty separator: "" gives <<"">>
split(s, sep) ==
  LET i == indexOf(s, sep)
  IN IF i < 0 THEN <<s>>
     ELSE <<substring(s, 0, i)>> \o split(substring(s, i + Len(sep), Len(s)), sep)

Digits == "0123456789"

RECURSIVE naturalToString(_)
naturalToString(n) ==
  IF n < 10 THEN charAt(Digits, n)
  ELSE naturalToString(n \div 10) \o charAt(Digits, n % 10)

\* String(n) for an integer n, as a template literal renders it
numberToString(n) == IF n < 0 THEN "-" \o naturalToString(-n) ELSE naturalToString(n)

\* String(b) for a boolean b
booleanToString(b) == IF b THEN "true" ELSE "false"

\* a rendering that puts a default in the place of an absent property
templateStringDefaulting(obj, key) == IF key \in DOMAIN obj THEN obj[key] ELSE "default"

\* `${obj[key]}` in a template literal, for a property that holds a string when
\* it is present: an absent property renders as "undefined"
templateString(obj, key) == IF key \in DOMAIN obj THEN obj[key] ELSE "undefined"

\* `${obj[key]}` for a property that holds a boolean when it is present
templateBoolean(obj, key) ==
  IF key \in DOMAIN obj THEN booleanToString(obj[key]) ELSE "undefined"

\* the truthiness of a string property: absent (undefined) and "" are falsy
truthyString(obj, key) == key \in DOMAIN obj /\ obj[key] # ""

\* the truthiness of a numeric property: absent (undefined) and 0 are falsy
truthyNumber(obj, key) == key \in DOMAIN obj /\ obj[key] # 0

(***************************************************************************)
(* matcheSignatures (dom-cache.js 45-51).  The value of the && chain is    *)
(* used as a condition, so the operator gives its truthiness.              *)
(***************************************************************************)
\* the comparison without the two guards on empty or missing signatures
matcheSignaturesUnguarded(signatures) ==
  LET actual == IF "actual" \in DOMAIN signatures THEN signatures.actual ELSE ""
      cached == IF "cached" \in DOMAIN signatures THEN signatures.cached ELSE ""
  IN indexOf(actual, cached) + Len(cached) = Len(actual)

matcheSignatures(signatures) ==
  /\ truthyString(signatures, "actual")
  /\ truthyString(signatures, "cached")
  /\ indexOf(signatures.actual, signatures.cached) + Len(signatures.cached)
       = Len(signatures.actual)

(***************************************************************************)
(* getWindowSignature (dom-cache.js 28-31).                                *)
(***************************************************************************)
\* a line that carries the raw id of the parent in the place of its index
windowSignatureLineWithRawParent(tab, tabIds) ==
  numberToString(IF truthyNumber(tab, "openerTabId") THEN tab.openerTabId ELSE -1)
    \o "," \o templateString(tab, "cookieStoreId")
    \o "," \o templateBoolean(tab, "incognito")
    \o "," \o templateBoolean(tab, "pinned")

\* one line of the signature: parent index, cookieStoreId, incognito, pinned
windowSignatureLine(tab, tabIds) ==
  numberToString(IF truthyNumber(tab, "openerTabId")
                 THEN arrayIndexOf(tabIds, tab.openerTabId)
                 ELSE -1)
    \o "," \o templateString(tab, "cookieStoreId")
    \o "," \o templateBoolean(tab, "incognito")
    \o "," \o templateBoolean(tab, "pinned")

getWindowSignature(tabs) ==
  LET tabIds == [i \in 1..Len(tabs) |-> tabs[i].id]
  IN join([i \in 1..Len(tabs) |-> windowSignatureLine(tabs[i], tabIds)], "\n")

(***************************************************************************)
(* Regular expressions of signatureFromTabsCache (dom-cache.js 54-61).     *)
(* A match result is the array of its groups, <<>> for null.               *)
(***************************************************************************)
\* Constants.kAPI_TAB_ID and Constants.kPARENT (common/constants.js)
kAPI_TAB_ID == "data-tab-id"

kPARENT == "data-parent-id"

WordChars == "ABCDEFGHIJKLMNOPQRSTUVWXYZabcdefghijklmnopqrstuvwxyz0123456789_"

WordCharSet == {charAt(WordChars, i) : i \in 0..(Len(WordChars) - 1)}

\* \w
isWordChar(c) == c \in WordCharSet

\* \s
isWhitespace(c) == c \in {" ", "\n", "\t", "\r", "\f"}

\* \b at 0-based position i of s: between the characters i-1 and i
wordBoundaryAt(s, i) == isWordChar(charAt(s, i - 1)) # isWordChar(charAt(s, i))

\* /\bword\b/.test(s), for a word made of word characters
testWord(s, word) ==
  \E i \in 0..Len(s) :
    occursAt(s, word, i) /\ wordBoundaryAt(s, i) /\ wordBoundaryAt(s, i + Len(word))

RECURSIVE matchAttributeFrom(_, _, _)
\* s.match(new RegExp(`${name}="([^"]+)"`)) tried from position `from` on;
\* prefix is name="
matchAttributeFrom(s, prefix, from) ==
  LET p     == indexOfFrom(s, prefix, from)
      start == p + Len(prefix)
      q     == indexOfFrom(s, "\"", start)
  IN IF p < 0 \/ q < 0 THEN <<>>
     ELSE IF q = start THEN matchAttributeFrom(s, prefix, p + 1)
     ELSE <<substring(s, p, q + 1), substring(s, start, q)>>

matchAttribute(s, name) == matchAttributeFrom(s, name \o "=\"", 0)

RECURSIVE matchItemsFrom(_, _)
\* the matches of /(<li[^>]*>[\w\W]+?<\/li>)/g in s from position `from` on:
\* "<li", anything but ">" up to the first ">", at least one character, and
\* the first "</li>" after it
matchItemsFrom(s, from) ==
  LET p == indexOfFrom(s, "<li", from)
      q == indexOfFrom(s, ">", p + 3)
      e == indexOfFrom(s, "</li>", q + 2)
  IN IF p < 0 \/ q < 0 \/ e < 0 THEN <<>>
     ELSE <<substring(s, p, e + 5)>> \o matchItemsFrom(s, e + 5)

\* cachedTabs.match(/(<li[^>]*>[\w\W]+?<\/li>)/g) || []
matchItems(s) == matchItemsFrom(s, 0)

\* the end of the run of non-whitespace characters that starts at position i
RECURSIVE nonWhitespaceRunEnd(_, _)
nonWhitespaceRunEnd(s, i) ==
  IF i >= Len(s) \/ isWhitespace(charAt(s, i)) THEN i ELSE nonWhitespaceRunEnd(s, i + 1)

RECURSIVE matchCookieStoreIdFrom(_, _)
\* classes.match(/\bcontextual-identity-[^\s]+\b/): the expression has no
\* capturing group, so the result holds the whole match only
matchCookieStoreIdFrom(s, from) ==
  LET prefix == "contextual-identity-"
      p      == indexOfFrom(s, prefix, from)
      start  == p + Len(prefix)
      ends   == {e \in (start + 1)..nonWhitespaceRunEnd(s, start) : wordBoundaryAt(s, e)}
  IN IF p < 0 THEN <<>>
     ELSE IF ~wordBoundaryAt(s, p) \/ ends = {} THEN matchCookieStoreIdFrom(s, p + 1)
     ELSE <<substring(s, p, Max(ends))>>

matchCookieStoreId(s) == matchCookieStoreIdFrom(s, 0)

\* match && match[k] || fallback, for a match result and a group number k
groupOr(match, k, fallback) ==
  IF match # <<>> /\ k + 1 <= Len(match) /\ match[k + 1] # "" THEN match[k + 1]
  ELSE fallback

(***************************************************************************)
(* parseInt.  A number is [num |-> n]; NaN is [nan |-> TRUE].              *)
(***************************************************************************)
NaN == [nan |-> TRUE]

Num(n) == [num |-> n]

isDigit(c) == c # "" /\ indexOf(Digits, c) >= 0

RECURSIVE skipWhitespace(_, _)
skipWhitespace(s, i) ==
  IF i < Len(s) /\ isWhitespace(charAt(s, i)) THEN skipWhitespace(s, i + 1) ELSE i

RECURSIVE parseDigits(_, _, _)
\* the value of the run of decimal digits of s at position i, after acc
parseDigits(s, i, acc) ==
  IF isDigit(charAt(s, i))
  THEN parseDigits(s, i + 1, acc * 10 + indexOf(Digits, charAt(s, i)))
  ELSE acc

\* parseInt(s) for decimal input: leading whitespace, an optional sign, digits
parseInt(s) ==
  LET i    == skipWhitespace(s, 0)
      sign == charAt(s, i)
      j    == IF sign \in {"-", "+"} THEN i + 1 ELSE i
  IN IF ~isDigit(charAt(s, j)) THEN NaN
     ELSE Num((IF sign = "-" THEN -1 ELSE 1) * parseDigits(s, j, 0))

\* the truthiness of a parsed number or of null (<<>>)
truthyParsed(v) == v # <<>> /\ v # NaN /\ v # Num(0)

(***************************************************************************)
(* signatureFromTabsCache (dom-cache.js 53-76).  The result is             *)
(* [threw |-> TRUE] when matched.match(...)[1] is read from a null match.  *)
(***************************************************************************)
\* whether the map callback throws a TypeError on this fragment
cachedTabThrows(matched) ==
  matchAttribute(matched, kAPI_TAB_ID) = <<>> \/ matchAttribute(matched, "class") = <<>>

\* the object the map callback returns for one fragment
cachedTab(matched) ==
  LET classes       == matchAttribute(matched, "class")[2]
      cookieStoreId == matchCookieStoreId(classes)
      parentMatched == matchAttribute(matched, kPARENT)
  IN [id            |-> parseInt(matchAttribute(matched, kAPI_TAB_ID)[2]),
      cookieStoreId |-> groupOr(cookieStoreId, 1, "contextual-identity-firefox-default"),
      parentId      |-> IF parentMatched = <<>> THEN <<>> ELSE parseInt(parentMatched[2]),
      incognito     |-> testWord(classes, "incognito"),
      pinned        |-> testWord(classes, "pinned")]

\* one line of the signature parsed from the cache
cacheSignatureLine(tab, tabIds) ==
  numberToString(IF truthyParsed(tab.parentId)
                 THEN arrayIndexOf(tabIds, tab.parentId)
                 ELSE -1)
    \o "," \o tab.cookieStoreId
    \o "," \o booleanToString(tab.incognito)
    \o "," \o booleanToString(tab.pinned)

RECURSIVE mapCachedTab(_)
\* items.map(matched => ...)
mapCachedTab(items) ==
  IF Len(items) = 0 THEN <<>>
  ELSE <<cachedTab(items[1])>> \o mapCachedTab(Tail(items))

\* a parse that resolves each parent among the ids collected so far only
signatureFromTabsCacheInOnePass(cachedTabs) ==
  LET items  == matchItems(cachedTabs)
      tabs   == mapCachedTab(items)
      tabIds == [i \in 1..Len(items) |-> tabs[i].id]
  IN [threw |-> FALSE,
      value |-> join([i \in 1..Len(items) |->
                        cacheSignatureLine(tabs[i], SubSeq(tabIds, 1, i))], "\n")]

signatureFromTabsCache(cachedTabs) ==
  LET items == matchItems(cachedTabs)
  IN IF \E i \in 1..Len(items) : cachedTabThrows(items[i])
     THEN [threw |-> TRUE]
     ELSE LET tabs   == mapCachedTab(items)
              tabIds == [i \in 1..Len(items) |-> tabs[i].id]
          IN [threw |-> FALSE,
              value |-> join([i \in 1..Len(items) |-> cacheSignatureLine(tabs[i], tabIds)],
                             "\n")]

(***************************************************************************)
(* trimSignature and trimTabsCache (dom-cache.js 33-43).  The ignoreCount  *)
(* argument is Num(k), or Undefined when the caller leaves it out.         *)
(***************************************************************************)
Undefined == [undefined |-> TRUE]

\* !ignoreCount || ignoreCount < 0
ignoresNothing(ignoreCount) ==
  ignoreCount = Undefined \/ ignoreCount = Num(0) \/ ignoreCount.num < 0

\* a slice that counts its start from 1
sliceFromOneBased(arr, start) == SubSeq(arr, start, Len(arr))

\* Array.prototype.slice(start) for start >= 0
sliceFrom(arr, start) == SubSeq(arr, start + 1, Len(arr))

trimSignature(signature, ignoreCount) ==
  IF ignoresNothing(ignoreCount) THEN signature
  ELSE join(sliceFrom(split(signature, "\n"), ignoreCount.num), "\n")

RECURSIVE matchRepeatedItemsGreedyAt(_, _, _)
\* a repetition whose items each run to the last "</li>" that lets the rest match
matchRepeatedItemsGreedyAt(s, p, count) ==
  IF count = 0 THEN p
  ELSE LET q    == indexOfFrom(s, ">", p + 3)
           ends == {e \in (q + 2)..Len(s) :
                      occursAt(s, "</li>", e)
                        /\ matchRepeatedItemsGreedyAt(s, e + 5, count - 1) >= 0}
       IN IF ~occursAt(s, "<li", p) \/ q < 0 \/ ends = {} THEN -1
          ELSE matchRepeatedItemsGreedyAt(s, Max(ends) + 5, count - 1)

RECURSIVE matchRepeatedItemsAt(_, _, _)
RECURSIVE matchItemEndingFrom(_, _, _)
\* (<li[^>]*>[\w\W]+?<\/li>){count} anchored at position p of s: the position
\* after the match, or -1.  Each repetition starts where the one before it
\* ended; its lazy body ends at the first "</li>" from which the remaining
\* repetitions match, later ones being tried on backtracking.
matchRepeatedItemsAt(s, p, count) ==
  IF count = 0 THEN p
  ELSE LET q == indexOfFrom(s, ">", p + 3)
       IN IF ~occursAt(s, "<li", p) \/ q < 0 THEN -1
          ELSE matchItemEndingFrom(s, q + 2, count)

\* the body of one repetition ends at the first "</li>" at or after `from`
\* that the remaining count - 1 repetitions can follow
matchItemEndingFrom(s, from, count) ==
  LET e == indexOfFrom(s, "</li>", from)
  IN IF e < 0 THEN -1
     ELSE LET rest == matchRepeatedItemsAt(s, e + 5, count - 1)
          IN IF rest >= 0 THEN rest ELSE matchItemEndingFrom(s, e + 1, count)

\* cache.replace(new RegExp(`(<li[^>]*>[\\w\\W]+?<\/li>){${count}}`), ''):
\* the first (leftmost) match is cut out, no match leaves the string as it is
replaceRepeatedItems(s, count) ==
  LET starts == {p \in 0..Len(s) : matchRepeatedItemsAt(s, p, count) >= 0}
  IN IF starts = {} THEN s
     ELSE LET p == Min(starts)
          IN substring(s, 0, p) \o substring(s, matchRepeatedItemsAt(s, p, count), Len(s))

trimTabsCache(cache, ignoreCount) ==
  IF ignoresNothing(ignoreCount) THEN cache
  ELSE replaceRepeatedItems(cache, ignoreCount.num)

(***************************************************************************)
(* The document and the stores restoreTabsFromCacheInternal works on       *)
(* (dom-cache.js 78-164).  A world w holds                                 *)
(*   windowRecord  TabsStore.windows.get(windowId): Undefined, or a record *)
(*                 whose element is a container or Null                    *)
(*   document      the children of SidebarTabs.wholeContainer, in order    *)
(*   containers    per container node: id, windowId and its child nodes    *)
(*   elements      per item node: id, apiTab and the stamped attributes    *)
(*   tabElement    per tracked tab id: $TST.element, a node or Null        *)
(* Nodes are numbered as they are created.                                 *)
(***************************************************************************)
\* null or undefined in the place of a node or of a tab
Null == 0

\* params.windowId
windowId == 1

\* the elements of a sequence
rangeOf(seq) == {seq[i] : i \in 1..Len(seq)}

\* node.parentNode of a container: it hangs in the document or nowhere
isAttached(w, container) == container \in rangeOf(w.document)

\* node.parentNode of an item: the container that holds it, or Null
parentOfElement(w, element) ==
  LET holders == {c \in DOMAIN w.containers : element \in rangeOf(w.containers[c].children)}
  IN IF holders = {} THEN Null ELSE CHOOSE c \in holders : TRUE

\* a removal that leaves the node where it is
keepInDocument(w, container) == w

\* parent.removeChild(container), the parent being the document's tab bar
removeFromDocument(w, container) ==
  [w EXCEPT !.document = SelectSeq(w.document, LAMBDA node : node # container)]

\* Tab.get(id).$TST.element: Null when the tab has no element
boundElement(w, id) == IF id \in DOMAIN w.tabElement THEN w.tabElement[id] ELSE Null

\* a range: the child positions start..end (end exclusive) of one container
selectNodeContents(w, container) ==
  [container |-> container, start |-> 0, end |-> Len(w.containers[container].children)]

\* Range.setStartBefore(node): a start after the end, or in another tree,
\* collapses the range to the new start
setStartBefore(w, range, node) ==
  LET parent == parentOfElement(w, node)
      at     == arrayIndexOf(w.containers[parent].children, node)
  IN IF parent = range.container /\ at <= range.end THEN [range EXCEPT !.start = at]
     ELSE [container |-> parent, start |-> at, end |-> at]

\* Range.setEndAfter(node): an end before the start, or in another tree,
\* collapses the range to the new end
setEndAfter(w, range, node) ==
  LET parent == parentOfElement(w, node)
      at     == arrayIndexOf(w.containers[parent].children, node) + 1
  IN IF parent = range.container /\ at >= range.start THEN [range EXCEPT !.end = at]
     ELSE [container |-> parent, start |-> at, end |-> at]

\* Range.deleteContents()
deleteContents(w, range) ==
  LET children == w.containers[range.container].children
  IN [w EXCEPT !.containers[range.container].children =
                  SubSeq(children, 1, range.start) \o SubSeq(children, range.end + 1, Len(children))]

\* params.cache.match(/<li/g): the number of matches, 0 for null
countItemTags(cache) == Cardinality({i \in 0..Len(cache) : occursAt(cache, "<li", i)})

\* params.cache.replace(/^<ul[^>]+>|<\/ul>$/g, '')
stripWrapper(cache) ==
  LET q       == indexOfFrom(cache, ">", 4)
      opened  == IF occursAt(cache, "<ul", 0) /\ charAt(cache, 3) # ">" /\ q >= 0
                 THEN substring(cache, q + 1, Len(cache))
                 ELSE cache
  IN IF endsWithString(opened, "</ul>") THEN substring(opened, 0, Len(opened) - 5) ELSE opened

\* the item nodes createContextualFragment makes of a run of items: fresh
\* nodes after the ones that exist, not yet bound to any tab
parsedElements(w, source) ==
  LET first == Max(DOMAIN w.elements \cup {0})
      count == Len(matchItems(source))
  IN SubSeq([i \in 1..count |-> first + i], 1, count)

unboundElement == [id |-> "", apiTab |-> Null, apiTabId |-> Null, apiWindowId |-> Null]

\* insertionPoint.insertNode(fragment) at the end of the container's contents
appendParsed(w, container, source) ==
  LET created == parsedElements(w, source)
  IN [w EXCEPT !.elements = @ @@ [e \in rangeOf(created) |-> unboundElement],
               !.containers[container].children = @ \o created]

\* Array.slice(childNodes, -count) for count >= 1
lastChildren(children, count) ==
  SubSeq(children, Max({1, Len(children) - count + 1}), Len(children))

(***************************************************************************)
(* restoreTabsFromCacheInternal up to its first await (dom-cache.js        *)
(* 78-149).  The step ends in a thrown TypeError (at the line that reads a *)
(* property of null or undefined, or hands a non-node to the range), in a  *)
(* returned empty array, or with the container detached for the fixup.     *)
(***************************************************************************)
Threw(w, line) == [kind |-> "threw", world |-> w, at |-> line]

ReturnedEmpty(w, line) == [kind |-> "returned", world |-> w, at |-> line]

EntersFixup(w, container, tabElements) ==
  [kind |-> "fixup", world |-> w, container |-> container, tabElements |-> tabElements]

\* the DOM tree is restored: lines 138-141 go on with these locals
Restored(w, container, tabElements) ==
  [kind |-> "restored", world |-> w, container |-> container, tabElements |-> tabElements]

\* params.offset || 0
offsetOf(params) == IF params.offset = Undefined THEN 0 ELSE params.offset.num

\* a node the range can be set before or after: an item that has a parent
isPlacedNode(w, node) == node # Null /\ parentOfElement(w, node) # Null

\* a dump that empties the tab bar
dumpCacheClearingDocument(w, cache) == [w EXCEPT !.document = <<>>]

\* dumpCache(cache), lines 166-170: the cache is made readable and handed to
\* log, which keeps nothing of it in the document or in the stores
dumpCache(w, cache) == w

\* if (configs.debug) dumpCache(params.cache), lines 106-107 and 120-121
dumpedWhenDebugging(w, cache) == IF w.configs.debug THEN dumpCache(w, cache) ELSE w

\* a check that lets a container of exactly offset children pass
fewerChildrenThanOffset(w, container, offset) ==
  container = Null \/ Len(w.containers[container].children) < offset

\* lines 86-87: !container || container.childNodes.length <= offset
missingContainer(w, container, offset) ==
  container = Null \/ Len(w.containers[container].children) <= offset

\* lines 85-115: offset > 0
restoreTail(w, params, tabs) ==
  LET offset    == offsetOf(params)
      container == w.windowRecord.element
  IN IF missingContainer(w, container, offset)
     THEN ReturnedEmpty(w, 89)
     ELSE IF Len(tabs) = 0 THEN Threw(w, 92)
     ELSE IF ~isPlacedNode(w, boundElement(w, tabs[1].id)) THEN Threw(w, 96)
     ELSE IF ~isPlacedNode(w, boundElement(w, tabs[Len(tabs)].id)) THEN Threw(w, 97)
     ELSE LET whole   == selectNodeContents(w, container)
              started == setStartBefore(w, whole, boundElement(w, tabs[1].id))
              range   == setEndAfter(w, started, boundElement(w, tabs[Len(tabs)].id))
              cleared == deleteContents(w, range)
              matched == countItemTags(params.cache)
          IN IF matched = 0 THEN Threw(cleared, 105)
             ELSE LET dumped   == dumpedWhenDebugging(cleared, params.cache)
                      inserted == appendParsed(dumped, container, stripWrapper(params.cache))
                  IN Restored(inserted, container,
                              lastChildren(inserted.containers[container].children, matched))

\* Window.init(windowId): the window record exists afterwards and holds the
\* container that carries the window's id in the document
windowInit(w, id) ==
  LET found == {i \in 1..Len(w.document) :
                  w.containers[w.document[i]].id = "window-" \o numberToString(id)}
      kept  == IF w.windowRecord = Undefined THEN Null ELSE w.windowRecord.element
  IN [w EXCEPT !.windowRecord =
                  [element |-> IF found = {} THEN kept ELSE w.document[Min(found)]]]

\* a full restoration that leaves the container of the window record in place
keepOld(w, params) == w

\* lines 117-118, for an attached container
removeOld(w, params) ==
  IF w.windowRecord.element # Null THEN removeFromDocument(w, w.windowRecord.element) ELSE w

\* insertionPoint.insertNode(fragment), lines 122-130: without
\* params.insertionPoint the range is collapsed to the end of the tab bar;
\* a range the caller passes stands before one of the nodes of the tab bar
insertNode(document, node, insertionPoint) ==
  IF insertionPoint = Undefined THEN Append(document, node)
  ELSE LET at == arrayIndexOf(document, insertionPoint.before)
       IN SubSeq(document, 1, at) \o <<node>> \o SubSeq(document, at + 1, Len(document))

\* lines 116-137: offset == 0
restoreFull(w, params, tabs) ==
  IF w.windowRecord.element # Null /\ ~isAttached(w, w.windowRecord.element) THEN Threw(w, 118)
  ELSE LET removed   == dumpedWhenDebugging(removeOld(w, params), params.cache)
           container == Max(DOMAIN removed.containers \cup {0}) + 1
           blank     == [id |-> "", windowId |-> Null, children |-> <<>>]
           created   == [removed EXCEPT
                           !.containers = @ @@ (container :> blank),
                           !.document = insertNode(removed.document, container,
                                                   params.insertionPoint)]
           filled    == appendParsed(created, container, stripWrapper(params.cache))
           named     == [filled EXCEPT
                           !.containers[container].id = "window-" \o numberToString(params.windowId),
                           !.containers[container].windowId = params.windowId]
           initialized == windowInit(named, params.windowId)
       IN Restored(initialized, container, initialized.containers[container].children)

\* lines 141-149: the count check, and the detach before the fixup
checkRestored(restored, tabs) ==
  LET w         == restored.world
      container == restored.container
  IN IF Len(restored.tabElements) # Len(tabs)
     THEN IF isAttached(w, container) THEN ReturnedEmpty(removeFromDocument(w, container), 144)
          ELSE Threw(w, 143)
     ELSE IF isAttached(w, container)
          THEN EntersFixup(removeFromDocument(w, container), container, restored.tabElements)
          ELSE Threw(w, 149)

restoreTabsFromCacheInternal(w, params) ==
  LET tabs  == sliceFrom(params.tabs, offsetOf(params))
      moved == IF offsetOf(params) > 0 THEN restoreTail(w, params, tabs)
               ELSE restoreFull(w, params, tabs)
  IN IF w.windowRecord = Undefined THEN Threw(w, 83)
     ELSE IF moved.kind = "restored" THEN checkRestored(moved, tabs)
     ELSE moved

(***************************************************************************)
(* fixupTabsRestoredFromCache (dom-cache.js 172-213), one pair at a time.  *)
(***************************************************************************)
\* value || -1
orMinusOne(value) == IF value = 0 THEN -1 ELSE value

\* a binding that leaves the id of the element as the cache had it
bindPairKeepingId(w, tab, element) ==
  [w EXCEPT !.tabElement[tab.id] = element,
            !.elements[element] = [@ EXCEPT !.apiTab = tab.id]]

\* a pair whose tab is initialized before anything is set
unboundBeforeInit(w, tab, element) == w

\* lines 184-186, what is done before Tab.init: the element gets its id, the
\* tab gets the element (bindElement) and the element the tab (apiTab)
boundBeforeInit(w, tab, element) ==
  [w EXCEPT !.tabElement[tab.id] = element,
            !.elements[element] = [@ EXCEPT !.id     = "tab-" \o numberToString(tab.id),
                                            !.apiTab = tab.id]]

\* line 187, Tab.init(tab, {existing: true}): what the initialization finds,
\* the element of the tab and the id of that element
initObserved(w, tab) ==
  LET element == boundElement(w, tab.id)
  IN [tab     |-> tab.id,
      element |-> element,
      id      |-> IF element = Null THEN "" ELSE w.elements[element].id]

\* a pair that is left without its attributes
leaveUnstamped(w, tab, element) == w

\* lines 188-191, what is done after Tab.init: the id of the element is set on
\* the element of the tab, and the tab id and the window id are stamped on it
stampPair(w, tab, element) ==
  [w EXCEPT !.elements[boundElement(w, tab.id)] =
              [@ EXCEPT !.id          = w.elements[element].id,
                        !.apiTabId    = orMinusOne(tab.id),
                        !.apiWindowId = orMinusOne(tab.windowId)]]

\* lines 182-191: the element gets its id, the tab and the element are bound
\* to each other, the tab id and the window id are stamped on the element
bindPair(w, tab, element) == stampPair(boundBeforeInit(w, tab, element), tab, element)

\* a fixup that leaves the container out of the document
leaveDetached(w, container) == w

\* line 153: parent.appendChild(container)
appendToDocument(w, container) == [w EXCEPT !.document = Append(w.document, container)]

\* Tab.dumpAll(): the tabs are handed to log
dumpAll(w) == w

\* lines 153-162: the container is attached again; with configs.debug the
\* tabs are dumped
reattached(w, container) ==
  LET attached == appendToDocument(w, container)
  IN IF w.configs.debug THEN dumpAll(attached) ELSE attached

\* an error handler that puts the container back before it throws
reattachOnError(w, container) == appendToDocument(w, container)

\* the catch of lines 156-158: the error is logged and thrown again, line 153
\* is skipped
rethrow(w, container) == w

\* Constants.kPROGRESS_INTERVAL, in milliseconds
kPROGRESS_INTERVAL == 16

\* Math.round(numerator / denominator) for a non-negative quotient
mathRound(numerator, denominator) == (2 * numerator + denominator) \div (2 * denominator)

\* a progress that spreads the pass over the whole scale before it is shifted
progressOverWholeScale(count, maxCount) == mathRound(count * 100, maxCount) + 33

\* Math.round(count / maxCount * 33) + 33 (lines 193, 207)
progressOf(count, maxCount) == mathRound(count * 33, maxCount) + 33

\* a pass that draws as soon as the interval has elapsed
intervalReached(now, lastDraw) == now - lastDraw >= kPROGRESS_INTERVAL

\* Date.now() - lastDraw > Constants.kPROGRESS_INTERVAL (lines 192, 206)
intervalExceeded(now, lastDraw) == now - lastDraw > kPROGRESS_INTERVAL

\* a step 2 that resyncs every tab
applyAndResync(tab, dirty) ==
  <<[fn |-> "applyStatesToElement", tab |-> tab],
    [fn |-> "applyCollapseExpandStateToElement", tab |-> tab],
    [fn |-> "updateTab", tab |-> tab, forceApply |-> TRUE]>>

\* lines 201-205: the calls step 2 makes for one element
applyStates(tab, dirty) ==
  <<[fn |-> "applyStatesToElement", tab |-> tab],
    [fn |-> "applyCollapseExpandStateToElement", tab |-> tab]>>
    \o (IF dirty THEN <<[fn |-> "updateTab", tab |-> tab, forceApply |-> TRUE]>> ELSE <<>>)

\* a check that lets fewer elements than records pass
moreElementsThanRecords(tabElements, records) == Len(tabElements) > Len(records)

\* line 174: tabElements.length != tabs.length
lengthsDiffer(tabElements, records) == Len(tabElements) # Len(records)

(***************************************************************************)
(* The cached markup: one <li> per tab inside a <ul>, each carrying the    *)
(* tab id, a class list (container class, incognito, pinned) and the raw   *)
(* id of its parent.  The serialization step is outside dom-cache.js.      *)
(***************************************************************************)
serializeClasses(tab) ==
  "tab"
    \o (IF "cookieStoreId" \in DOMAIN tab
        THEN " contextual-identity-" \o tab.cookieStoreId ELSE "")
    \o (IF "incognito" \in DOMAIN tab /\ tab.incognito THEN " incognito" ELSE "")
    \o (IF "pinned" \in DOMAIN tab /\ tab.pinned THEN " pinned" ELSE "")

serializeTab(tab) ==
  "<li " \o kAPI_TAB_ID \o "=\"" \o numberToString(tab.id) \o "\""
    \o " class=\"" \o serializeClasses(tab) \o "\""
    \o (IF "openerTabId" \in DOMAIN tab
        THEN " " \o kPARENT \o "=\"" \o numberToString(tab.openerTabId) \o "\""
        ELSE "")
    \o "><a>\n</a></li>"

serializeTabs(tabs) ==
  "<ul id=\"window-1\">"
    \o join([i \in 1..Len(tabs) |-> serializeTab(tabs[i])], "")
    \o "</ul>"

(***************************************************************************)
(* The inputs: tab lists as the browser reports them, and signature pairs. *)
(***************************************************************************)
IdOrders == {"ascending", "descending"}

\* the id of the i-th of n tabs: 1, 2, 3, ... or ..., 11, 10, 9
tabIdAt(order, n, i) == IF order = "ascending" THEN i ELSE 8 + (n + 1 - i)

\* an id no listed tab has
missingTabId(n) == 8

OpenerChoices == {"none", "first", "next", "missing"}

AttributePatterns == {"default", "mixed", "pinnedFirst", "private", "bare"}

\* cookieStoreId, incognito and pinned of the i-th tab under a pattern
attributesAt(pattern, i) ==
  CASE pattern = "default" ->
         [cookieStoreId |-> "firefox-default", incognito |-> FALSE, pinned |-> FALSE]
    [] pattern = "mixed" ->
         [cookieStoreId |-> IF i % 2 = 1 THEN "firefox-container-1" ELSE "firefox-default",
          incognito |-> FALSE, pinned |-> FALSE]
    [] pattern = "pinnedFirst" ->
         [cookieStoreId |-> "firefox-default", incognito |-> FALSE, pinned |-> (i = 1)]
    [] pattern = "private" ->
         [cookieStoreId |-> "firefox-private", incognito |-> TRUE, pinned |-> FALSE]

makeTab(order, pattern, opener, n, i) ==
  LET id   == tabIdAt(order, n, i)
      base == CASE opener = "first" /\ i > 1 -> [id |-> id, openerTabId |-> tabIdAt(order, n, 1)]
                [] opener = "next" /\ i < n  -> [id |-> id, openerTabId |-> tabIdAt(order, n, i + 1)]
                [] opener = "missing"        -> [id |-> id, openerTabId |-> missingTabId(n)]
                [] OTHER                     -> [id |-> id]
  IN IF pattern = "bare" THEN base ELSE base @@ attributesAt(pattern, i)

TabLists ==
  UNION {
    { [i \in 1..n |-> makeTab(order, pattern, openers[i], n, i)] :
        order \in IdOrders, pattern \in AttributePatterns,
        openers \in [1..n -> OpenerChoices] } :
    n \in 0..MaxTabs }

SignatureAlphabet == {"-", "1", "\n"}

RECURSIVE stringsOfLength(_)
stringsOfLength(n) ==
  IF n = 0 THEN {""}
  ELSE {s \o c : s \in stringsOfLength(n - 1), c \in SignatureAlphabet}

SignatureStrings == UNION {stringsOfLength(n) : n \in 0..MaxSigLen}

\* the argument objects of matcheSignatures; a missing signature is an absent property
SignaturePairs ==
  {[actual |-> a, cached |-> c] : a \in SignatureStrings, c \in SignatureStrings}
    \cup {[actual |-> a] : a \in stringsOfLength(0) \cup stringsOfLength(1)}
    \cup {[cached |-> c] : c \in stringsOfLength(0) \cup stringsOfLength(1)}
    \cup {<<>>}

(***************************************************************************)
(* Cached markup as it is read back from storage: item fragments of        *)
(* several kinds, some of them damaged, side by side inside the wrapper.   *)
(***************************************************************************)
FragmentKinds ==
  {"plain", "child", "badParent", "emptyParent", "noClass", "emptyClass", "nested"}

\* the kinds whose class attribute is missing or empty
DamagedClassKinds == {"noClass", "emptyClass"}

\* the kinds whose parent reference is not a number
DamagedParentKinds == {"badParent", "emptyParent"}

fragmentClassAttribute(kind) ==
  CASE kind = "noClass"    -> ""
    [] kind = "emptyClass" -> " class=\"\""
    [] kind = "child"      -> " class=\"tab pinned\""
    [] OTHER               -> " class=\"tab\""

fragmentParentAttribute(kind) ==
  CASE kind = "child"       -> " " \o kPARENT \o "=\"1\""
    [] kind = "badParent"   -> " " \o kPARENT \o "=\"abc\""
    [] kind = "emptyParent" -> " " \o kPARENT \o "=\"\""
    [] OTHER                -> ""

\* what an item holds between its tags: one line, several lines, or a nested list
fragmentBody(kind) ==
  CASE kind = "child"  -> "<a>\n</a>"
    [] kind = "nested" -> "<ul><li class=\"tab\">n</li></ul>y"
    [] OTHER           -> "<a>x</a>"

\* the markup of the i-th item, its tab id being i
renderFragment(kind, i) ==
  "<li " \o kAPI_TAB_ID \o "=\"" \o numberToString(i) \o "\""
    \o fragmentClassAttribute(kind) \o fragmentParentAttribute(kind)
    \o ">" \o fragmentBody(kind) \o "</li>"

RECURSIVE renderFragmentsFrom(_, _)
\* the markup of the items of kinds from the i-th on
renderFragmentsFrom(kinds, i) ==
  IF i > Len(kinds) THEN ""
  ELSE renderFragment(kinds[i], i) \o renderFragmentsFrom(kinds, i + 1)

wrapperOpen == "<ul id=\"window-1\">"

wrapperClose == "</ul>"

renderCache(kinds) == wrapperOpen \o renderFragmentsFrom(kinds, 1) \o wrapperClose

FragmentLists == UNION {[1..n -> FragmentKinds] : n \in 0..MaxFragments}

IgnoreCounts == {Undefined} \cup {Num(k) : k \in -1..MaxIgnoreCount}

(***************************************************************************)
(* State.                                                                  *)
(***************************************************************************)
VARIABLES
  input,            \* which argument was drawn: "tabs" or "signatures"
  tabs,             \* the tab records of the window
  signatures,       \* the argument object of matcheSignatures
  cache,            \* the cached markup of the window's tabs, "" before it is saved
  windowSignature,  \* the result of getWindowSignature(tabs)
  cachedSignature,  \* the result of signatureFromTabsCache(cache)
  matched,          \* the result of matcheSignatures(signatures)
  fragments,        \* the kinds of the item fragments of a cache read from storage
  signatureToTrim,  \* the signature handed to trimSignature
  trimmedSignature, \* the result of trimSignature(signatureToTrim, ignoreCount)
  trimmedCache,     \* the result of trimTabsCache(cache, ignoreCount)
  windowRecord,     \* TabsStore.windows.get(windowId)
  document,         \* the children of SidebarTabs.wholeContainer
  containers,       \* the container nodes
  elements,         \* the item nodes
  tabElement,       \* the element of each tracked tab
  call,             \* the restoreTabsFromCacheInternal call in flight
  outcome,          \* how the last call ended
  calls,            \* the number of calls made
  configs,          \* the configuration store
  mItems,           \* the declared menu items of the browser action
  mItemsById,       \* Map: id -> created item
  mUpdatableItemsById, \* the ids of the items onShown goes through, in order
  menuEvent,        \* the last menu event and the calls of browser.menus it made
  events            \* the number of menu events and configuration changes so far

trimmerVars == <<fragments, signatureToTrim, trimmedSignature, trimmedCache>>

worldVars == <<windowRecord, document, containers, elements, tabElement>>

restorationVars == <<worldVars, call, outcome, calls, configs>>

menuVars == <<mItems, mItemsById, mUpdatableItemsById, menuEvent, events>>

vars ==
  <<input, tabs, signatures, cache, windowSignature, cachedSignature, matched, trimmerVars,
    restorationVars, menuVars>>

NotCalled == [done |-> FALSE]

Returned(value) == [done |-> TRUE, value |-> value]

\* the result of a trimming call, with the ignoreCount it was given
Trimmed(ignoreCount, value) == [done |-> TRUE, count |-> ignoreCount, value |-> value]

Idle == [pc |-> "idle"]

\* no window is known and no restoration was asked for
restorationIdle ==
  /\ windowRecord = Undefined
  /\ document = <<>>
  /\ containers = <<>>
  /\ elements = <<>>
  /\ tabElement = <<>>
  /\ call = Idle
  /\ outcome = NotCalled
  /\ calls = 0
  /\ configs = [debug |-> FALSE]

\* no menu was built
menuIdle ==
  /\ mItems = <<>>
  /\ mItemsById = <<>>
  /\ mUpdatableItemsById = <<>>
  /\ menuEvent = [kind |-> "none"]
  /\ events = 0

\* no cache was read from storage and no trimming was asked for
trimmerIdle ==
  /\ fragments = <<>>
  /\ signatureToTrim = ""
  /\ trimmedSignature = NotCalled
  /\ trimmedCache = NotCalled

Init ==
  /\ \/ input = "tabs" /\ tabs \in TabLists /\ signatures = <<>>
     \/ input = "signatures" /\ tabs = <<>> /\ signatures \in SignaturePairs
  /\ cache = ""
  /\ windowSignature = NotCalled
  /\ cachedSignature = NotCalled
  /\ matched = NotCalled
  /\ trimmerIdle
  /\ menuIdle
  /\ restorationIdle

\* getWindowSignature(tabs)
GetWindowSignature ==
  /\ input = "tabs"
  /\ ~windowSignature.done
  /\ windowSignature' = Returned(getWindowSignature(tabs))
  /\ UNCHANGED <<menuVars, input, tabs, signatures, cache, cachedSignature, matched, trimmerVars,
                 restorationVars>>

\* the sidebar saves the markup of the window's tabs as its cache
SaveCache ==
  /\ input = "tabs"
  /\ cache = ""
  /\ cache' = serializeTabs(tabs)
  /\ UNCHANGED <<menuVars, input, tabs, signatures, windowSignature, cachedSignature, matched, trimmerVars,
                 restorationVars>>

\* signatureFromTabsCache(cache)
SignatureFromTabsCache ==
  /\ cache # ""
  /\ ~cachedSignature.done
  /\ cachedSignature' = Returned(signatureFromTabsCache(cache))
  /\ UNCHANGED <<menuVars, input, tabs, signatures, cache, windowSignature, matched, trimmerVars,
                 restorationVars>>

\* matcheSignatures(signatures)
MatcheSignatures ==
  /\ input = "signatures"
  /\ ~matched.done
  /\ matched' = Returned(matcheSignatures(signatures))
  /\ UNCHANGED <<menuVars, input, tabs, signatures, cache, windowSignature, cachedSignature, trimmerVars,
                 restorationVars>>

Next ==
  \/ GetWindowSignature
  \/ SaveCache
  \/ SignatureFromTabsCache
  \/ MatcheSignatures

Spec == Init /\ [][Next]_vars

(***************************************************************************)
(* The cache read back from storage: its signature and the two trimmers.   *)
(***************************************************************************)
InitMarkup ==
  /\ \/ /\ input = "cache"
        /\ fragments \in FragmentLists
        /\ cache = renderCache(fragments)
        /\ signatureToTrim = ""
     \/ /\ input = "signature"
        /\ fragments = <<>>
        /\ cache = ""
        /\ signatureToTrim \in SignatureStrings
  /\ tabs = <<>>
  /\ signatures = <<>>
  /\ windowSignature = NotCalled
  /\ cachedSignature = NotCalled
  /\ matched = NotCalled
  /\ trimmedSignature = NotCalled
  /\ trimmedCache = NotCalled
  /\ restorationIdle
  /\ menuIdle

\* trimSignature(signature, ignoreCount)
TrimSignature ==
  /\ input = "signature"
  /\ ~trimmedSignature.done
  /\ \E ignoreCount \in IgnoreCounts :
       trimmedSignature' = Trimmed(ignoreCount, trimSignature(signatureToTrim, ignoreCount))
  /\ UNCHANGED <<menuVars, input, tabs, signatures, cache, windowSignature, cachedSignature, matched,
                 fragments, signatureToTrim, trimmedCache, restorationVars>>

\* trimTabsCache(cache, ignoreCount)
TrimTabsCache ==
  /\ input = "cache"
  /\ ~trimmedCache.done
  /\ \E ignoreCount \in IgnoreCounts :
       trimmedCache' = Trimmed(ignoreCount, trimTabsCache(cache, ignoreCount))
  /\ UNCHANGED <<menuVars, input, tabs, signatures, cache, windowSignature, cachedSignature, matched,
                 fragments, signatureToTrim, trimmedSignature, restorationVars>>

NextMarkup ==
  \/ SignatureFromTabsCache
  \/ TrimSignature
  \/ TrimTabsCache

SpecMarkup == InitMarkup /\ [][NextMarkup]_vars

(***************************************************************************)
(* Restoration of one window from its cache: calls one after another, each *)
(* with an offset and a cache drawn by the caller.                         *)
(***************************************************************************)
\* the item nodes that stand in the live container before any call: the
\* elements of the window's n tabs in order, without one of them, with the
\* element of one more tab, or in reverse order; the element of tab t is node t
LiveLayouts(n) ==
  {[i \in 1..n |-> i], [i \in 1..(n + 1) |-> i], [i \in 1..n |-> n + 1 - i]}
    \cup {SelectSeq([i \in 1..n |-> i], LAMBDA t : t # missing) : missing \in 1..n}

boundElementOf(t) ==
  [id |-> "tab-" \o numberToString(t), apiTab |-> t, apiTabId |-> t, apiWindowId |-> windowId]

\* the window has a container in the document that holds these item nodes
liveWorld(n, layout) ==
  [windowRecord |-> [element |-> 1],
   document     |-> <<1>>,
   containers   |-> <<[id |-> "window-" \o numberToString(windowId), windowId |-> windowId,
                       children |-> layout]>>,
   elements     |-> [e \in rangeOf(layout) |-> boundElementOf(e)],
   tabElement   |-> [t \in 1..(n + 1) |-> IF t \in rangeOf(layout) THEN t ELSE Null]]

\* the window has no container: its record is missing or holds no element
emptyWorld(n, record) ==
  [windowRecord |-> record, document |-> <<>>, containers |-> <<>>, elements |-> <<>>,
   tabElement |-> [t \in 1..(n + 1) |-> Null]]

InitialWorlds(n) ==
  {emptyWorld(n, Undefined), emptyWorld(n, [element |-> Null])}
    \cup {liveWorld(n, layout) : layout \in LiveLayouts(n)}

world ==
  [windowRecord |-> windowRecord, document |-> document, containers |-> containers,
   elements |-> elements, tabElement |-> tabElement, configs |-> configs]

\* the five variables take the values of the world w
becomes(w) ==
  /\ windowRecord' = w.windowRecord
  /\ document' = w.document
  /\ containers' = w.containers
  /\ elements' = w.elements
  /\ tabElement' = w.tabElement

InitRestore ==
  /\ input = "restore"
  /\ \E n \in 0..MaxRestoredTabs :
       /\ tabs = [i \in 1..n |-> [id |-> i, windowId |-> windowId]]
       /\ \E w \in InitialWorlds(n) :
            /\ windowRecord = w.windowRecord
            /\ document = w.document
            /\ containers = w.containers
            /\ elements = w.elements
            /\ tabElement = w.tabElement
  /\ call = Idle
  /\ outcome = NotCalled
  /\ calls = 0
  /\ configs \in [debug : BOOLEAN]
  /\ signatures = <<>>
  /\ cache = ""
  /\ windowSignature = NotCalled
  /\ cachedSignature = NotCalled
  /\ matched = NotCalled
  /\ trimmerIdle
  /\ menuIdle

\* the offsets a caller passes: none, or 0..len(tabs)
Offsets == {Undefined} \cup {Num(k) : k \in 0..Len(tabs)}

\* the numbers of items in the cache a caller passes for an affected range
\* of `expected` tabs: none, as many, or one more
CacheItemCounts(expected) == {0, expected, expected + 1}

\* a cache of this many items
cacheOf(items) == renderCache([i \in 1..items |-> "plain"])

\* how a call ended, with its arguments and the world it started in
Ended(params, before, threw, at, value) ==
  [done |-> TRUE, params |-> params, before |-> before, threw |-> threw, at |-> at,
   value |-> value]

\* the pace of a fixup pass: the milliseconds a pair may take and the
\* milliseconds the next frame may be away.  A restoration runs its pass with
\* quick pairs or with slow pairs; a pass on its own is checked with pairs of
\* any length, the interval itself included.
RestorePaces == {[pair |-> {0}, frame |-> {16}], [pair |-> {17}, frame |-> {16}]}

FixupPaces == {[pair |-> {0, 16, 17}, frame |-> {0, 16}]}

\* the frame of a call that has reached line 150: its arguments and locals,
\* the locals of fixupTabsRestoredFromCache (index, lastDraw, count,
\* maxCount), the clock Date.now() reads, counted from the start of the
\* fixup, and what the fixup has done so far: the pairs processed (log),
\* what each Tab.init found (inits), the calls made on the state applier
\* (applied), the percentages handed to setProgress (reports) and the times
\* of the yields (yields)
Frame(params, before, records, container, tabElements, pace) ==
  [pc          |-> "fixup",
   pace        |-> pace,
   params      |-> params,
   before      |-> before,
   tabs        |-> records,
   container   |-> container,
   tabElements |-> tabElements,
   index       |-> 0,
   lastDraw    |-> 0,
   count       |-> 0,
   maxCount    |-> 0,
   now         |-> 0,
   log         |-> <<>>,
   inits       |-> <<>>,
   applied     |-> <<>>,
   reports     |-> <<>>,
   yields      |-> <<>>]

\* the container of another window
otherWindow == [id |-> "window-2", windowId |-> 2, children |-> <<>>]

\* the nodes of the tab bar that are not containers of the window
siblingsIn(w) ==
  {w.document[i] : i \in {j \in 1..Len(w.document) :
                           w.containers[w.document[j]].windowId # windowId}}

\* the ranges a caller passes as params.insertionPoint: none, or one that
\* stands before a node of the tab bar that the call leaves alone
InsertionPoints == {Undefined} \cup {[before |-> node] : node \in siblingsIn(world)}

\* restoreTabsFromCacheInternal(params), lines 78-150: up to the call of
\* fixupTabsRestoredFromCache
RestoreTabsFromCacheInternal ==
  /\ input = "restore"
  /\ call = Idle
  /\ calls < MaxCalls
  /\ calls' = calls + 1
  /\ \E offset \in Offsets, shouldUpdate \in BOOLEAN, pace \in RestorePaces,
        insertionPoint \in InsertionPoints :
       \E items \in CacheItemCounts(Len(sliceFrom(tabs, offsetOf([offset |-> offset])))) :
         \E params \in {[windowId |-> windowId, tabs |-> tabs, offset |-> offset,
                         cache |-> cacheOf(items), shouldUpdate |-> shouldUpdate,
                         insertionPoint |-> insertionPoint]} :
         \E step \in {restoreTabsFromCacheInternal(world, params)} :
            /\ becomes(step.world)
            /\ IF step.kind = "fixup"
               THEN /\ call' = Frame(params, world, sliceFrom(tabs, offsetOf(params)),
                                     step.container, step.tabElements, pace)
                    /\ outcome' = NotCalled
               ELSE /\ call' = Idle
                    /\ outcome' = Ended(params, world, step.kind = "threw", step.at, <<>>)
  /\ UNCHANGED <<menuVars, input, tabs, signatures, cache, windowSignature, cachedSignature, matched,
                 trimmerVars, configs>>

\* fixupTabsRestoredFromCache, lines 172-179: the length check, which throws
\* through the catch of lines 156-158, and the locals of the pass
FixupTabsRestoredFromCache ==
  /\ call.pc = "fixup"
  /\ IF lengthsDiffer(call.tabElements, call.tabs)
     THEN /\ call' = Idle
          /\ outcome' = Ended(call.params, call.before, TRUE, 175, <<>>)
          /\ becomes(rethrow(world, call.container))
     ELSE /\ becomes(world)
          /\ call' = [call EXCEPT !.pc       = IF Len(call.tabElements) = 0 THEN "reattach"
                                               ELSE "step1",
                                  !.lastDraw = call.now,
                                  !.count    = 0,
                                  !.maxCount = Len(call.tabElements) * 2]
          /\ outcome' = outcome
  /\ UNCHANGED <<menuVars, input, tabs, signatures, cache, windowSignature, cachedSignature, matched,
                 trimmerVars, calls, configs>>

\* a loop that is left after any pair that does not yield
afterPairLeavingLoop(frame, now, yielding, next, following) ==
  IF intervalExceeded(now, frame.lastDraw)
  THEN [frame EXCEPT !.pc      = yielding,
                     !.index   = frame.index + 1,
                     !.now     = now,
                     !.count   = frame.count + 1,
                     !.reports = Append(@, progressOf(frame.count + 1, frame.maxCount)),
                     !.yields  = Append(@, now)]
  ELSE [frame EXCEPT !.pc = following, !.index = 0, !.now = now]

\* a loop that takes up the same pair again after a yield
afterPairRepeating(frame, now, yielding, next, following) ==
  IF intervalExceeded(now, frame.lastDraw) /\ Len(frame.yields) = 0
  THEN [frame EXCEPT !.pc      = yielding,
                     !.now     = now,
                     !.count   = frame.count + 1,
                     !.reports = Append(@, progressOf(frame.count + 1, frame.maxCount)),
                     !.yields  = Append(@, now)]
  ELSE IF frame.index + 1 < Len(frame.tabElements)
       THEN [frame EXCEPT !.pc = next, !.index = frame.index + 1, !.now = now]
  ELSE [frame EXCEPT !.pc = following, !.index = 0, !.now = now]

\* lines 192-196 and 206-210, after the pair of a step was processed at time
\* now: past the interval the count goes up, the progress is reported and
\* the pass waits for the next frame; else it goes on with the next pair, or
\* with what follows the loop
afterPair(frame, now, yielding, next, following) ==
  LET processed == frame.index + 1
      ahead     == [frame EXCEPT !.index = processed, !.now = now]
  IN IF intervalExceeded(now, frame.lastDraw)
     THEN [ahead EXCEPT !.pc      = yielding,
                        !.count   = frame.count + 1,
                        !.reports = Append(@, progressOf(frame.count + 1, frame.maxCount)),
                        !.yields  = Append(@, now)]
     ELSE IF processed < Len(frame.tabElements) THEN [ahead EXCEPT !.pc = next]
     ELSE [ahead EXCEPT !.pc = following, !.index = 0]

\* fixupTabsRestoredFromCache, step 1 (lines 181-197): the next pair is bound
FixupStep1 ==
  /\ call.pc = "step1"
  /\ becomes(bindPair(world, call.tabs[call.index + 1], call.tabElements[call.index + 1]))
  /\ \E duration \in call.pace.pair :
       call' = afterPair([call EXCEPT
                            !.log   = Append(@, <<1, call.index + 1>>),
                            !.inits = Append(@, initObserved(
                                                  boundBeforeInit(world, call.tabs[call.index + 1],
                                                                  call.tabElements[call.index + 1]),
                                                  call.tabs[call.index + 1]))],
                         call.now + duration, "yield1", "step1", "step2")
  /\ UNCHANGED <<menuVars, input, tabs, signatures, cache, windowSignature, cachedSignature, matched,
                 trimmerVars, outcome, calls, configs>>

\* fixupTabsRestoredFromCache, step 2 (lines 200-211): the states of the next
\* element are applied
FixupStep2 ==
  /\ call.pc = "step2"
  /\ \E duration \in call.pace.pair :
       call' = afterPair([call EXCEPT
                            !.log = Append(@, <<2, call.index + 1>>),
                            !.applied = @ \o applyStates(
                                               elements[call.tabElements[call.index + 1]].apiTab,
                                               call.params.shouldUpdate)],
                         call.now + duration, "yield2", "step2", "reattach")
  /\ UNCHANGED <<menuVars, input, tabs, signatures, cache, windowSignature, cachedSignature, matched,
                 trimmerVars, worldVars, outcome, calls, configs>>

\* await nextFrame() ends (lines 194-195, 208-209): lastDraw = Date.now(),
\* and the loop goes on, or is left after its last pair
NextFrame ==
  /\ call.pc \in {"yield1", "yield2"}
  /\ \E duration \in call.pace.frame :
       LET now  == call.now + duration
           last == call.index = Len(call.tabElements)
       IN call' = [call EXCEPT
                     !.now      = now,
                     !.lastDraw = now,
                     !.index    = IF last THEN 0 ELSE @,
                     !.pc       = IF call.pc = "yield1"
                                  THEN (IF last THEN "step2" ELSE "step1")
                                  ELSE (IF last THEN "reattach" ELSE "step2")]
  /\ UNCHANGED <<menuVars, input, tabs, signatures, cache, windowSignature, cachedSignature, matched,
                 trimmerVars, worldVars, outcome, calls, configs>>

\* lines 153-163: the container is attached again and the elements are returned
FinishRestore ==
  /\ call.pc = "reattach"
  /\ becomes(reattached(world, call.container))
  /\ outcome' = Ended(call.params, call.before, FALSE, 163, call.tabElements)
  /\ call' = Idle
  /\ UNCHANGED <<menuVars, input, tabs, signatures, cache, windowSignature, cachedSignature, matched,
                 trimmerVars, calls, configs>>

NextRestore ==
  \/ RestoreTabsFromCacheInternal
  \/ FixupTabsRestoredFromCache
  \/ FixupStep1
  \/ FixupStep2
  \/ NextFrame
  \/ FinishRestore

SpecRestore == InitRestore /\ [][NextRestore]_vars

(***************************************************************************)
(* Restoration in a tab bar that holds the container of another window     *)
(* next to the one of the restored window.                                 *)
(***************************************************************************)
\* the world w with the other container before or after what the tab bar holds
withSibling(w, first) ==
  LET sibling == Len(w.containers) + 1
  IN [w EXCEPT !.containers = Append(w.containers, otherWindow),
               !.document   = IF first THEN <<sibling>> \o w.document
                              ELSE Append(w.document, sibling)]

InitPlacement ==
  /\ input = "restore"
  /\ \E n \in 1..MaxRestoredTabs, first \in BOOLEAN :
       /\ tabs = [i \in 1..n |-> [id |-> i, windowId |-> windowId]]
       /\ \E w \in {withSibling(v, first) :
                       v \in {emptyWorld(n, [element |-> Null]),
                              liveWorld(n, SubSeq([i \in 1..n |-> i], 1, n))}} :
            /\ windowRecord = w.windowRecord
            /\ document = w.document
            /\ containers = w.containers
            /\ elements = w.elements
            /\ tabElement = w.tabElement
  /\ call = Idle
  /\ outcome = NotCalled
  /\ calls = 0
  /\ configs = [debug |-> FALSE]
  /\ signatures = <<>>
  /\ cache = ""
  /\ windowSignature = NotCalled
  /\ cachedSignature = NotCalled
  /\ matched = NotCalled
  /\ trimmerIdle
  /\ menuIdle

SpecPlacement == InitPlacement /\ [][NextRestore]_vars

(***************************************************************************)
(* Reentrancy: while a call waits for its next frame, the event loop runs  *)
(* a second restoreTabsFromCacheInternal for the same window.              *)
(***************************************************************************)
\* the end of a call that ran during the wait of another one
EndedDuring(waiting, params, before, threw, at) ==
  [done |-> TRUE, params |-> params, before |-> before, threw |-> threw, at |-> at,
   value |-> <<>>, during |-> waiting]

\* two passes under way at once: the waiting one and the one a second call
\* entered at line 150
Nested(outer, inner) == [pc |-> "nested", outer |-> outer, inner |-> inner]

\* restoreTabsFromCacheInternal(params), lines 78-150, run to its end or to
\* its own fixup while the first call is suspended at line 194 or 208
RestoreWhileSuspended ==
  /\ input = "restore"
  /\ call.pc \in {"yield1", "yield2"}
  /\ calls < MaxCalls
  /\ calls' = calls + 1
  /\ \E offset \in Offsets, shouldUpdate \in BOOLEAN, insertionPoint \in InsertionPoints :
       \E items \in CacheItemCounts(Len(sliceFrom(tabs, offsetOf([offset |-> offset])))) :
         \E params \in {[windowId |-> windowId, tabs |-> tabs, offset |-> offset,
                         cache |-> cacheOf(items), shouldUpdate |-> shouldUpdate,
                         insertionPoint |-> insertionPoint]} :
         \E step \in {restoreTabsFromCacheInternal(world, params)} :
            /\ becomes(step.world)
            /\ IF step.kind = "fixup"
               THEN /\ call' = Nested(call, Frame(params, world,
                                                  sliceFrom(tabs, offsetOf(params)),
                                                  step.container, step.tabElements,
                                                  call.pace))
                    /\ outcome' = NotCalled
               ELSE /\ call' = call
                    /\ outcome' = EndedDuring(call.pc, params, world, step.kind = "threw",
                                              step.at)
  /\ UNCHANGED <<menuVars, input, tabs, signatures, cache, windowSignature, cachedSignature, matched,
                 trimmerVars, configs>>

NextReentrant ==
  \/ NextRestore
  \/ RestoreWhileSuspended

SpecReentrant == InitRestore /\ [][NextReentrant]_vars

(***************************************************************************)
(* The browser-action menu (browser-action-menu.js 31-1514): the declared  *)
(* items, createItem and the listeners of browser.menus.onShown and        *)
(* browser.menus.onClicked.  A value of the configuration store is         *)
(* Bool(b) or Num(n); a key the store does not hold reads as Undefined.    *)
(***************************************************************************)
\* the most menu events and configuration changes of one behaviour
MaxMenuEvents == 3

Bool(b) == [bool |-> b]

\* a property an object does not have
Absent == [absent |-> TRUE]

\* the truthiness of a value
truthy(v) == v # Undefined /\ v # Bool(FALSE) /\ v # Num(0)

\* !v
logicalNot(v) == Bool(~truthy(v))

\* Number(v) of a boolean or of a number
toNumber(v) == IF "bool" \in DOMAIN v THEN (IF v.bool THEN 1 ELSE 0) ELSE v.num

\* a == b for booleans, numbers and undefined
looseEquals(a, b) ==
  IF a = Undefined \/ b = Undefined THEN a = b ELSE toNumber(a) = toNumber(b)

\* a === b
strictEquals(a, b) == a = b

\* configs[key]
configOf(store, key) == IF key \in DOMAIN store THEN store[key] ELSE Undefined

\* item.key as a property name
keyOf(item) == IF "key" \in DOMAIN item THEN item.key ELSE "undefined"

\* item.type
typeOf(item) == IF "type" \in DOMAIN item THEN item.type ELSE ""

\* the title getter of lines 713-716, which reads configs.autoGroupNewTabsTimeout
dynamicTitleOf(store) ==
  "before " \o numberToString(store.autoGroupNewTabsTimeout.num) \o " after"

\* item.title
titleOf(item, store) ==
  IF "dynamicTitle" \in DOMAIN item THEN dynamicTitleOf(store)
  ELSE IF "title" \in DOMAIN item THEN item.title ELSE ""

\* the shapes of the items of mItems (lines 31-1433)
radioItem(key, value) == [title |-> "choice", key |-> key, value |-> value, type |-> "radio"]

checkboxItem(key) == [title |-> "option", key |-> key, type |-> "checkbox"]

\* mItems with the shapes of lines 31-1433: submenus of radio items with
\* numbers (lines 393-450) and with booleans (lines 1157-1172), a checkbox
\* with a visible getter (lines 933-940), a checkbox with a dynamic title
\* (lines 711-719), an item without type and key (lines 704-707) and a
\* separator (line 1425)
menuItems(moveInSuccession) ==
  << [title    |-> "newTabBehavior",
      children |-> <<radioItem("autoAttachOnNewTabCommand", Num(0)),
                     radioItem("autoAttachOnNewTabCommand", Num(1))>>],
     [title    |-> "fixupTreeOnTabVisibilityChanged",
      children |-> <<radioItem("fixupTreeOnTabVisibilityChanged", Bool(TRUE)),
                     radioItem("fixupTreeOnTabVisibilityChanged", Bool(FALSE))>>],
     checkboxItem("simulateSelectOwnerOnClose") @@ [visible |-> Bool(moveInSuccession)],
     [dynamicTitle |-> TRUE, key |-> "autoGroupNewTabsFromBookmarks", type |-> "checkbox"],
     [title |-> "groupTab", enabled |-> FALSE],
     [type |-> "separator"] >>

\* the values each key of the store takes
ConfigStores ==
  [debug                           : {FALSE},
   autoAttachOnNewTabCommand       : {Num(0), Num(1), Num(2)},
   fixupTreeOnTabVisibilityChanged : {Bool(TRUE), Bool(FALSE)},
   simulateSelectOwnerOnClose      : {Bool(TRUE), Bool(FALSE)},
   autoGroupNewTabsFromBookmarks   : {Bool(TRUE), Bool(FALSE)},
   autoGroupNewTabsTimeout         : {Num(1), Num(2)}]

RECURSIVE createItem(_, _, _, _)
RECURSIVE createChildren(_, _, _, _, _)
\* createItem(id, item, parent), lines 1439-1474, on the two maps:
\* maps.byId is mItemsById, maps.updatable the keys of mUpdatableItemsById
createItem(maps, id, item, store) ==
  IF "visible" \in DOMAIN item /\ strictEquals(item.visible, Bool(FALSE)) THEN maps
  ELSE LET dynamic == "dynamicTitle" \in DOMAIN item
           created == IF dynamic
                      THEN [id |-> id, lastTitle |-> titleOf(item, store)] @@ item
                      ELSE [id |-> id] @@ item
           updated == typeOf(item) \in {"checkbox", "radio"} \/ dynamic
           set     == [byId      |-> (id :> created) @@ maps.byId,
                       updatable |-> IF updated THEN Append(maps.updatable, id)
                                     ELSE maps.updatable]
       IN IF "children" \in DOMAIN item
          THEN createChildren(set, id, item.children, 0, store)
          ELSE set

\* the loop of lines 1468-1471, from the i-th child on
createChildren(maps, id, children, i, store) ==
  IF i >= Len(children) THEN maps
  ELSE createChildren(createItem(maps, id \o ":" \o numberToString(i), children[i + 1], store),
                      id, children, i + 1, store)

RECURSIVE createItems(_, _, _, _)
\* the loop of lines 1476-1478, from the i-th item on
createItems(maps, items, i, store) ==
  IF i >= Len(items) THEN maps
  ELSE createItems(createItem(maps, "browserActionItem:" \o numberToString(i), items[i + 1],
                              store),
                   items, i + 1, store)

noItems == [byId |-> <<>>, updatable |-> <<>>]

\* the ids a click may carry: those of all declared items and one of a menu
\* item that this module did not create
MenuItemIds ==
  DOMAIN createItems(noItems, menuItems(TRUE), 0, CHOOSE store \in ConfigStores : TRUE).byId
    \cup {"context_closeTab"}

\* a click that toggles the key whatever the item holds
clickedValueToggled(item, store) == logicalNot(configOf(store, keyOf(item)))

\* line 1513: 'value' in item ? item.value : !configs[item.key]
clickedValue(item, store) ==
  IF "value" \in DOMAIN item THEN item.value ELSE logicalNot(configOf(store, keyOf(item)))

\* the params of lines 1487-1499 for one item
shownParams(item, store) ==
  [title   |-> IF "dynamicTitle" \in DOMAIN item /\ titleOf(item, store) # item.lastTitle
               THEN titleOf(item, store) ELSE Absent,
   checked |-> IF typeOf(item) \in {"checkbox", "radio"}
               THEN (IF "value" \in DOMAIN item
                     THEN Bool(looseEquals(configOf(store, keyOf(item)), item.value))
                     ELSE configOf(store, keyOf(item)))
               ELSE Absent,
   visible |-> IF "visible" \in DOMAIN item THEN item.visible ELSE Absent]

RECURSIVE menuUpdates(_, _, _)
\* the calls of browser.menus.update of lines 1500-1503, in order
menuUpdates(ids, byId, store) ==
  IF Len(ids) = 0 THEN <<>>
  ELSE LET params == shownParams(byId[ids[1]], store)
       IN (IF params.checked # Absent \/ params.title # Absent
           THEN <<[id |-> ids[1], params |-> params]>> ELSE <<>>)
            \o menuUpdates(Tail(ids), byId, store)

RECURSIVE retitled(_, _, _)
\* lines 1489-1492: item.lastTitle follows the title of each dynamic item
retitled(ids, byId, store) ==
  IF Len(ids) = 0 THEN byId
  ELSE LET item == byId[ids[1]]
       IN retitled(Tail(ids),
                   IF "dynamicTitle" \in DOMAIN item
                   THEN (ids[1] :> [item EXCEPT !.lastTitle = titleOf(item, store)]) @@ byId
                   ELSE byId,
                   store)

InitMenu ==
  /\ input = "menu"
  /\ \E moveInSuccession \in BOOLEAN : mItems = menuItems(moveInSuccession)
  /\ configs \in ConfigStores
  /\ mItemsById = <<>>
  /\ mUpdatableItemsById = <<>>
  /\ menuEvent = [kind |-> "none"]
  /\ events = 0
  /\ tabs = <<>>
  /\ signatures = <<>>
  /\ cache = ""
  /\ windowSignature = NotCalled
  /\ cachedSignature = NotCalled
  /\ matched = NotCalled
  /\ trimmerIdle
  /\ windowRecord = Undefined
  /\ document = <<>>
  /\ containers = <<>>
  /\ elements = <<>>
  /\ tabElement = <<>>
  /\ call = Idle
  /\ outcome = NotCalled
  /\ calls = 0

menuUnchanged ==
  UNCHANGED <<input, tabs, signatures, cache, windowSignature, cachedSignature, matched,
              trimmerVars, worldVars, call, outcome, calls, mItems>>

\* the module is loaded: lines 1476-1478 create every item
CreateItems ==
  /\ input = "menu"
  /\ menuEvent.kind = "none"
  /\ \E maps \in {createItems(noItems, mItems, 0, configs)} :
       /\ mItemsById' = maps.byId
       /\ mUpdatableItemsById' = maps.updatable
  /\ menuEvent' = [kind |-> "created"]
  /\ UNCHANGED <<configs, events>>
  /\ menuUnchanged

\* the listener of browser.menus.onShown, lines 1480-1505
OnShown ==
  /\ input = "menu"
  /\ menuEvent.kind # "none"
  /\ events < MaxMenuEvents
  /\ events' = events + 1
  /\ \E contexts \in {{"browser_action"}, {"tab"}} :
       IF "browser_action" \notin contexts
       THEN /\ menuEvent' = [kind |-> "shown", contexts |-> contexts, updates |-> <<>>,
                             refreshed |-> FALSE]
            /\ mItemsById' = mItemsById
       ELSE \E updates \in {menuUpdates(mUpdatableItemsById, mItemsById, configs)} :
              /\ menuEvent' = [kind |-> "shown", contexts |-> contexts, updates |-> updates,
                               refreshed |-> Len(updates) > 0]
              /\ mItemsById' = retitled(mUpdatableItemsById, mItemsById, configs)
  /\ UNCHANGED <<configs, mUpdatableItemsById>>
  /\ menuUnchanged

\* the listener of browser.menus.onClicked, lines 1507-1514
OnClicked ==
  /\ input = "menu"
  /\ menuEvent.kind # "none"
  /\ events < MaxMenuEvents
  /\ events' = events + 1
  /\ \E menuItemId \in MenuItemIds :
       /\ menuEvent' = [kind |-> "clicked", menuItemId |-> menuItemId]
       /\ configs' = IF menuItemId \notin DOMAIN mItemsById THEN configs
                     ELSE LET item == mItemsById[menuItemId]
                          IN IF "key" \notin DOMAIN item THEN configs
                             ELSE [configs EXCEPT ![item.key] = clickedValue(item, configs)]
  /\ UNCHANGED <<mItemsById, mUpdatableItemsById>>
  /\ menuUnchanged

\* the options page writes a value of the store
ConfigChanged ==
  /\ input = "menu"
  /\ menuEvent.kind # "none"
  /\ events < MaxMenuEvents
  /\ events' = events + 1
  /\ \E store \in ConfigStores :
       /\ \E key \in DOMAIN configs :
            /\ store[key] # configs[key]
            /\ \A other \in DOMAIN configs \ {key} : store[other] = configs[other]
            /\ menuEvent' = [kind |-> "changed", key |-> key]
       /\ configs' = store
  /\ UNCHANGED <<mItemsById, mUpdatableItemsById>>
  /\ menuUnchanged

NextMenu ==
  \/ CreateItems
  \/ OnShown
  \/ OnClicked
  \/ ConfigChanged

SpecMenu == InitMenu /\ [][NextMenu]_vars

\* the frame scheduler resumes every yield, and the steps that are not
\* waiting for a frame run on
FairRestore ==
  SpecRestore /\ WF_vars(FixupTabsRestoredFromCache \/ FixupStep1 \/ FixupStep2
                           \/ NextFrame \/ FinishRestore)

(***************************************************************************)
(* The fixup pass on its own: fixupTabsRestoredFromCache is entered at     *)
(* line 150 with any two sequences, of equal length or not, over a         *)
(* detached container that holds the parsed elements.                      *)
(***************************************************************************)
\* the world at line 150: the container of the window is out of the document
\* and holds `count` elements that are bound to no tab
parsedWorld(n, count, debug) ==
  [windowRecord |-> [element |-> 1],
   document     |-> <<>>,
   containers   |-> <<[id |-> "window-" \o numberToString(windowId), windowId |-> windowId,
                       children |-> SubSeq([i \in 1..count |-> i], 1, count)]>>,
   elements     |-> [e \in 1..count |-> unboundElement],
   tabElement   |-> [t \in 1..n |-> Null],
   configs      |-> [debug |-> debug]]

InitFixup ==
  /\ input = "fixup"
  /\ \E n \in 0..MaxRestoredTabs, count \in 0..MaxRestoredTabs, shouldUpdate \in BOOLEAN,
        pace \in FixupPaces :
       /\ tabs = [i \in 1..n |-> [id |-> i, windowId |-> windowId]]
       /\ configs \in [debug : BOOLEAN]
       /\ \E w \in {parsedWorld(n, count, configs.debug)} :
            /\ windowRecord = w.windowRecord
            /\ document = w.document
            /\ containers = w.containers
            /\ elements = w.elements
            /\ tabElement = w.tabElement
            /\ call = Frame([windowId |-> windowId, tabs |-> tabs, offset |-> Undefined,
                              cache |-> cacheOf(count), shouldUpdate |-> shouldUpdate],
                             w, tabs, 1, w.containers[1].children, pace)
  /\ outcome = NotCalled
  /\ calls = 1
  /\ signatures = <<>>
  /\ cache = ""
  /\ windowSignature = NotCalled
  /\ cachedSignature = NotCalled
  /\ matched = NotCalled
  /\ trimmerIdle
  /\ menuIdle

NextFixup ==
  \/ FixupTabsRestoredFromCache
  \/ FixupStep1
  \/ FixupStep2
  \/ NextFrame
  \/ FinishRestore

SpecFixup == InitFixup /\ [][NextFixup]_vars

(***************************************************************************)
(* Restoration with collaborators that may fail: Tab.init and              *)
(* SidebarTabs.applyStatesToElement raise an error on any pair.  The pass  *)
(* is entered from a call or, with any two sequences, on its own.          *)
(***************************************************************************)
\* an error raised inside the pass: by Tab.init at line 187, after the pair
\* was bound by lines 184-186, or by SidebarTabs.applyStatesToElement at line
\* 201.  It leaves the pass and the callback of line 147 and reaches the
\* catch of lines 156-158.
FixupThrows ==
  /\ call.pc \in {"step1", "step2"}
  /\ LET tab     == call.tabs[call.index + 1]
         element == call.tabElements[call.index + 1]
     IN becomes(rethrow(IF call.pc = "step1" THEN boundBeforeInit(world, tab, element)
                        ELSE world,
                        call.container))
  /\ outcome' = Ended(call.params, call.before, TRUE,
                      IF call.pc = "step1" THEN 187 ELSE 201, <<>>)
  /\ call' = Idle
  /\ UNCHANGED <<menuVars, input, tabs, signatures, cache, windowSignature, cachedSignature, matched,
                 trimmerVars, calls, configs>>

InitFaulty == InitRestore \/ InitFixup

NextFaulty ==
  \/ NextRestore
  \/ FixupThrows

SpecFaulty == InitFaulty /\ [][NextFaulty]_vars

(***************************************************************************)
(* Properties of matcheSignatures.                                         *)
(***************************************************************************)
\* both signatures are present and non-empty
bothSignaturesGiven ==
  truthyString(signatures, "actual") /\ truthyString(signatures, "cached")

\* a ends with c
endsWith(a, c) == Len(c) <= Len(a) /\ SubSeq(a, Len(a) - Len(c) + 1, Len(a)) = c

\* the lines of c are a contiguous run of whole lines of a
isRunOfWholeLines(c, a) ==
  LET cl == split(c, "\n")
      al == split(a, "\n")
  IN \E k \in 0..(Len(al) - Len(cl)) : \A i \in 1..Len(cl) : al[k + i] = cl[i]

\* C1: for non-empty cached and actual, matcheSignatures is true if and only
\* if actual ends with cached (false when cached does not occur in actual,
\* true when it ends actual even if it also occurs earlier).
C1_MatchIffEndsWith ==
  (matched.done /\ bothSignaturesGiven)
    => (matched.value <=> endsWith(signatures.actual, signatures.cached))

\* C2: a non-empty signature matches itself.
C2_SelfMatch ==
  (matched.done /\ bothSignaturesGiven /\ signatures.actual = signatures.cached)
    => matched.value

C2_SelfMatchWitness ==
  /\ matched.done
  /\ bothSignaturesGiven
  /\ signatures.actual = signatures.cached
  /\ Len(signatures.cached) >= 3
  /\ matched.value

\* actual = cached + "\n" + extra for some non-empty extra, cached non-empty
cachedIsProperLinePrefix ==
  /\ bothSignaturesGiven
  /\ Len(signatures.actual) >= Len(signatures.cached) + 2
  /\ SubSeq(signatures.actual, 1, Len(signatures.cached) + 1) = signatures.cached \o "\n"

C4_EmptyOrMissingIsNonMatch ==
  (matched.done /\ ~bothSignaturesGiven) => ~matched.value

C4_BothEmptyWitness ==
  /\ matched.done
  /\ DOMAIN signatures = {"actual", "cached"}
  /\ signatures.actual = ""
  /\ signatures.cached = ""
  /\ ~matched.value

\* C5: the comparison is line-based: a match implies that the lines of cached
\* are a contiguous run of whole lines of actual.  Stated for the matches in
\* which cached does end actual, so that a violation is a match that starts in
\* the middle of a line and not a failed search (C1).
C5_MatchIsLineBased ==
  (matched.done /\ matched.value /\ endsWith(signatures.actual, signatures.cached))
    => isRunOfWholeLines(signatures.cached, signatures.actual)

(***************************************************************************)
(* Properties of getWindowSignature.                                       *)
(***************************************************************************)
\* cookieStoreId, incognito and pinned are present in every record
wellFormedAttributes(list) ==
  \A i \in 1..Len(list) : {"cookieStoreId", "incognito", "pinned"} \subseteq DOMAIN list[i]

RECURSIVE splitEach(_, _)
splitEach(lines, sep) ==
  IF Len(lines) = 0 THEN <<>>
  ELSE <<split(lines[1], sep)>> \o splitEach(Tail(lines), sep)

\* the lines of a signature, each as the sequence of its comma-separated fields
signatureFields(signature) == splitEach(split(signature, "\n"), ",")

\* the i-th line of a signature, and the k-th field of that line
signatureLine(signature, i) == split(signature, "\n")[i]

signatureField(signature, i, k) == signatureFields(signature)[i][k]

\* the 0-based position in list of the tab with this id, -1 when there is none
positionOfId(list, id) ==
  IF \E j \in 1..Len(list) : list[j].id = id
  THEN (CHOOSE j \in 1..Len(list) : list[j].id = id) - 1
  ELSE -1

\* the parent index the spec gives the i-th tab of list
expectedParentIndex(list, i) ==
  IF "openerTabId" \in DOMAIN list[i] THEN positionOfId(list, list[i].openerTabId) ELSE -1

\* C6: getWindowSignature(L) has exactly len(L) lines in input order (the
\* empty list gives ""), and every parent-index field is -1 or a valid
\* zero-based index into L.
C6_OneLinePerTab ==
  windowSignature.done =>
    IF Len(tabs) = 0 THEN windowSignature.value = ""
    ELSE LET fields == signatureFields(windowSignature.value)
         IN /\ Len(fields) = Len(tabs)
            /\ \A i \in 1..Len(tabs) :
                 /\ Len(fields[i]) = 4
                 /\ fields[i][2] = templateString(tabs[i], "cookieStoreId")
                 /\ fields[i][3] = templateBoolean(tabs[i], "incognito")
                 /\ fields[i][4] = templateBoolean(tabs[i], "pinned")
                 /\ \E k \in -1..(Len(tabs) - 1) : fields[i][1] = numberToString(k)

C6_OneLinePerTabWitness ==
  /\ windowSignature.done
  /\ Len(tabs) = 3
  /\ wellFormedAttributes(tabs)
  /\ tabs[1].cookieStoreId # tabs[2].cookieStoreId
  /\ signatureField(windowSignature.value, 2, 1) = "2"
  /\ signatureField(windowSignature.value, 3, 1) = "0"

\* the list [{id:1},{id:2,parent:1},{id:3,parent:1}] without any attribute
ScenarioTabs == <<[id |-> 1], [id |-> 2, openerTabId |-> 1], [id |-> 3, openerTabId |-> 1]>>

Renamings == {<<a, b>> : a \in {1, -1}, b \in -12..12}

renameId(r, id) == r[1] * id + r[2]

renameTab(r, tab) ==
  [k \in DOMAIN tab |-> IF k \in {"id", "openerTabId"} THEN renameId(r, tab[k]) ELSE tab[k]]

renameTabs(r, list) == [i \in 1..Len(list) |-> renameTab(r, list[i])]

\* every id the list mentions, as a tab id or as a parent reference
mentionedIds(list) ==
  {list[i].id : i \in 1..Len(list)}
    \cup {list[i].openerTabId : i \in {j \in 1..Len(list) : "openerTabId" \in DOMAIN list[j]}}

\* every parent field is the position in L of the parent, or -1
parentFieldsArePositions ==
  LET fields == signatureFields(windowSignature.value)
  IN \A i \in 1..Len(tabs) : fields[i][1] = numberToString(expectedParentIndex(tabs, i))

\* C8 as stated: the signature depends on positions only: every injective
\* renaming of the ids, also one that maps a tab to id 0, leaves it unchanged,
\* and each parent field is the position of the parent in L (or -1).
C8_RenamingInvariant ==
  windowSignature.done =>
    /\ \A r \in Renamings : getWindowSignature(renameTabs(r, tabs)) = windowSignature.value
    /\ parentFieldsArePositions

\* C8 as amended: every injective renaming of the ids onto non-zero ids
\* leaves the signature unchanged, and each parent field is the position of
\* the parent in L (or -1); a parent reference of 0 is read as no parent.
C8_NonZeroRenamingInvariant ==
  windowSignature.done =>
    /\ \A r \in Renamings :
         (\A id \in mentionedIds(tabs) : renameId(r, id) # 0)
           => getWindowSignature(renameTabs(r, tabs)) = windowSignature.value
    /\ parentFieldsArePositions

C8_RenamingWitness ==
  /\ windowSignature.done
  /\ Len(tabs) = 3
  /\ signatureField(windowSignature.value, 1, 1) = "1"
  /\ signatureField(windowSignature.value, 2, 1) = "0"
  /\ renameTabs(<<-1, 12>>, tabs)[2].openerTabId = 11
  /\ getWindowSignature(renameTabs(<<-1, 12>>, tabs)) = windowSignature.value

(***************************************************************************)
(* Properties of signatureFromTabsCache.                                   *)
(***************************************************************************)
\* every attribute is present and every parent reference is a listed tab
wellFormedTabs(list) ==
  /\ wellFormedAttributes(list)
  /\ \A i \in 1..Len(list) :
       "openerTabId" \in DOMAIN list[i] => positionOfId(list, list[i].openerTabId) >= 0

\* C9: round trip: for a well-formed tab list L, the signature parsed from
\* the markup that serializes L equals getWindowSignature(L).
C9_RoundTrip ==
  (cachedSignature.done /\ wellFormedTabs(tabs))
    => /\ ~cachedSignature.value.threw
       /\ cachedSignature.value.value = getWindowSignature(tabs)

\* C10: signatureFromTabsCache gives one line per item in document order, and
\* each parent field is the index of the item's raw parent id among all item
\* ids in document order, also when the parent comes later in the blob; it is
\* -1 without a parent attribute or when the parent id is not an item's id.
C10_ParentIndexFromAllIds ==
  cachedSignature.done =>
    /\ ~cachedSignature.value.threw
    /\ IF Len(tabs) = 0 THEN cachedSignature.value.value = ""
       ELSE LET fields == signatureFields(cachedSignature.value.value)
            IN /\ Len(fields) = Len(tabs)
               /\ \A i \in 1..Len(tabs) :
                    /\ Len(fields[i]) = 4
                    /\ fields[i][1] = numberToString(expectedParentIndex(tabs, i))
                    /\ fields[i][3]
                         = booleanToString("incognito" \in DOMAIN tabs[i] /\ tabs[i].incognito)
                    /\ fields[i][4]
                         = booleanToString("pinned" \in DOMAIN tabs[i] /\ tabs[i].pinned)

C10_LaterParentWitness ==
  /\ cachedSignature.done
  /\ Len(tabs) = 3
  /\ wellFormedAttributes(tabs)
  /\ tabs[1].pinned
  /\ "openerTabId" \in DOMAIN tabs[2]
  /\ tabs[2].openerTabId = tabs[3].id
  /\ signatureField(cachedSignature.value.value, 2, 1) = "2"
  /\ signatureField(cachedSignature.value.value, 1, 4) = "true"

(***************************************************************************)
(* Properties of signatureFromTabsCache on damaged markup, and of the      *)
(* trimmers.                                                               *)
(***************************************************************************)
\* no item of the cache holds a nested item
noNestedFragment == \A i \in 1..Len(fragments) : fragments[i] # "nested"

\* C11: signatureFromTabsCache fails softly: when the parent reference or the
\* class attribute of an item is missing or malformed it does not raise; it
\* gives one line per item, with -1 as the parent field of an item whose
\* parent reference is damaged and the default container, "false" and "false"
\* for an item whose class attribute is damaged.
C11_FailsSoftly ==
  (input = "cache" /\ cachedSignature.done /\ noNestedFragment)
    => /\ ~cachedSignature.value.threw
       /\ IF Len(fragments) = 0 THEN cachedSignature.value.value = ""
          ELSE LET fields == signatureFields(cachedSignature.value.value)
               IN /\ Len(fields) = Len(fragments)
                  /\ \A i \in 1..Len(fragments) :
                       /\ fragments[i] \in DamagedParentKinds => fields[i][1] = "-1"
                       /\ fragments[i] \in DamagedClassKinds
                            => /\ fields[i][2] = "contextual-identity-firefox-default"
                               /\ fields[i][3] = "false"
                               /\ fields[i][4] = "false"

\* the number of line breaks in s
countNewlines(s) == Cardinality({i \in 0..(Len(s) - 1) : charAt(s, i) = "\n"})

\* C12: trimSignature(signature, k) is the signature without its first k
\* lines for k >= 1 (what follows the k-th line break; the empty string when
\* k is at least the number of lines), and the signature itself when k <= 0
\* or k is absent.
C12_TrimSignatureDropsLines ==
  trimmedSignature.done =>
    LET k     == trimmedSignature.count
        value == trimmedSignature.value
        rest  == Len(signatureToTrim) - Len(value)
    IN IF k = Undefined \/ k.num <= 0 THEN value = signatureToTrim
       ELSE IF k.num >= countNewlines(signatureToTrim) + 1 THEN value = ""
       ELSE /\ endsWith(signatureToTrim, "\n" \o value)
            /\ countNewlines(SubSeq(signatureToTrim, 1, rest - 1)) = k.num - 1

C12_TrimSignatureWitness ==
  /\ trimmedSignature.done
  /\ signatureToTrim = "-\n\n1"
  /\ trimmedSignature.count = Num(2)
  /\ trimmedSignature.value = "1"

C14_NestedItemTrimmedWhole ==
  (trimmedCache.done /\ trimmedCache.count = Num(1)
     /\ Len(fragments) >= 1 /\ fragments[1] = "nested")
    => trimmedCache.value = wrapperOpen \o renderFragmentsFrom(fragments, 2) \o wrapperClose

(***************************************************************************)
(* Properties of restoreTabsFromCacheInternal.                             *)
(***************************************************************************)
\* the last call returned the restored elements (line 163)
succeeded == outcome.done /\ ~outcome.threw /\ outcome.at = 163

\* the tab records of the affected range of the last call
affectedTabs == sliceFrom(tabs, offsetOf(outcome.params))

\* the number of items the cache of the last call holds
cachedItemCount == Len(matchItems(outcome.params.cache))

\* C15: a successful call returns len(tabs) - offset elements in tab order;
\* the i-th one carries the id "tab-<id of tabs[offset+i]>", has that tab as
\* its apiTab and is the element of that tab; no two returned elements are
\* the same node or belong to the same tab.
C15_ReturnedElementsBound ==
  succeeded =>
    LET offset == offsetOf(outcome.params)
        value  == outcome.value
    IN /\ Len(value) = Len(tabs) - offset
       /\ \A i \in 1..Len(value) :
            /\ elements[value[i]].id = "tab-" \o numberToString(tabs[offset + i].id)
            /\ elements[value[i]].apiTab = tabs[offset + i].id
            /\ tabElement[tabs[offset + i].id] = value[i]
       /\ \A i, j \in 1..Len(value) :
            (value[i] = value[j] \/ elements[value[i]].apiTab = elements[value[j]].apiTab)
              => i = j

C15_TailSuccessWitness ==
  /\ succeeded
  /\ offsetOf(outcome.params) = 1
  /\ Len(outcome.value) = 2
  /\ elements[outcome.value[2]].id = "tab-3"
  /\ tabElement[3] = outcome.value[2]

\* what the last call needs of the world it starts in to reach the insertion
\* of the cached items: a window record; for a full restoration a container
\* that is attached, or none; for a tail restoration an attached container
\* with more than offset children and the elements of the first and of the
\* last affected tab inside it
insertionReached ==
  LET before    == outcome.before
      offset    == offsetOf(outcome.params)
      container == before.windowRecord.element
  IN /\ before.windowRecord # Undefined
     /\ container # Null => isAttached(before, container)
     /\ offset > 0 =>
          /\ container # Null
          /\ Len(before.containers[container].children) > offset
          /\ Len(affectedTabs) > 0
          /\ parentOfElement(before, boundElement(before, affectedTabs[1].id)) = container
          /\ parentOfElement(before, boundElement(before, affectedTabs[Len(affectedTabs)].id))
               = container

\* C16: in both modes, when the number of restored elements differs from the
\* number of tab records of the affected range, the call removes the
\* container from the document, binds no element to any tab and returns an
\* empty array.
C16_MismatchRemovesContainer ==
  (outcome.done /\ insertionReached /\ cachedItemCount # Len(affectedTabs))
    => /\ ~outcome.threw
       /\ outcome.value = <<>>
       /\ document = <<>>
       /\ tabElement = outcome.before.tabElement
       /\ \A e \in DOMAIN elements \ DOMAIN outcome.before.elements : elements[e].apiTab = Null

\* the element of the first or of the last affected tab is not in the live
\* container, which holds more than offset children
boundaryMissing ==
  LET before    == outcome.before
      container == before.windowRecord.element
  IN /\ offsetOf(outcome.params) > 0
     /\ before.windowRecord # Undefined
     /\ container # Null
     /\ isAttached(before, container)
     /\ Len(before.containers[container].children) > offsetOf(outcome.params)
     /\ Len(affectedTabs) > 0
     /\ \E t \in {affectedTabs[1].id, affectedTabs[Len(affectedTabs)].id} :
          parentOfElement(before, boundElement(before, t)) # container

\* C17: a tail restoration that cannot find the element of the first or of
\* the last affected tab in the live DOM returns an empty array without
\* throwing and leaves the container and its children as they were.
C17_MissingBoundaryReturnsEmpty ==
  (outcome.done /\ boundaryMissing)
    => /\ ~outcome.threw
       /\ outcome.value = <<>>
       /\ world = outcome.before

\* C18: a disagreement between the number of restored elements and the
\* number of affected tab records is never thrown: the call returns an empty
\* array, also in tail mode with a cache that holds no item and in tail mode
\* with offset = len(tabs).  Stated for calls whose window record exists,
\* whose container is attached and whose boundary elements, if the affected
\* range has any, are in it.
C18_MismatchNeverThrows ==
  LET before    == outcome.before
      offset    == offsetOf(outcome.params)
      container == before.windowRecord.element
  IN (/\ outcome.done
      /\ before.windowRecord # Undefined
      /\ container # Null => isAttached(before, container)
      /\ (offset > 0 /\ Len(affectedTabs) > 0 /\ container # Null)
           => \A t \in {affectedTabs[1].id, affectedTabs[Len(affectedTabs)].id} :
                parentOfElement(before, boundElement(before, t)) = container
      /\ cachedItemCount # Len(affectedTabs))
       => (~outcome.threw /\ outcome.value = <<>>)

\* C19: a full restoration (offset 0) of a window that has a record never
\* throws, whether the record holds no container, an attached one, or one
\* that an earlier restoration took out of the document.
C19_FullRestorationNeverThrows ==
  (outcome.done /\ offsetOf(outcome.params) = 0 /\ outcome.before.windowRecord # Undefined)
    => ~outcome.threw

\* C20: after any sequence of calls made one after another the document holds
\* at most one container of the window, and after a successful call exactly
\* one, which carries the id "window-<windowId>" and the window id.
C20_OneContainerPerWindow ==
  /\ Len(document) <= 1
  /\ succeeded =>
       /\ Len(document) = 1
       /\ containers[document[1]].id = "window-" \o numberToString(windowId)
       /\ containers[document[1]].windowId = windowId

C20_SecondFullRestorationWitness ==
  /\ calls = 2
  /\ succeeded
  /\ offsetOf(outcome.params) = 0
  /\ outcome.before.document # <<>>
  /\ document # outcome.before.document
  /\ Len(outcome.value) = 2

(* Properties of the fixup pass.                                           *)
(***************************************************************************)
\* the pairs of a pass over n elements in the order of the two loops
allPairs(n) == [i \in 1..(2 * n) |-> IF i <= n THEN <<1, i>> ELSE <<2, i - n>>]

\* a call is in the fixup pass, running or waiting for a frame
inFixup == call # Idle /\ call.pc \in {"step1", "step2", "yield1", "yield2"}

\* C21: while the fixup pass runs or waits at a yield, in step 1 or step 2,
\* the container is not in the document; it enters the document again only
\* when both steps have processed every pair, in the step that ends the call;
\* and when a call has returned its elements, the container that holds them
\* is in the document.
C21_DetachAndReattach ==
  /\ [](call # Idle => ~isAttached(world, call.container))
  /\ [][(call # Idle /\ call.container \in rangeOf(document'))
          => (call.log = allPairs(Len(call.tabElements)) /\ call' = Idle /\ succeeded')]_vars
  /\ [](succeeded =>
          /\ isAttached(world, windowRecord.element)
          /\ \A i \in 1..Len(outcome.value) :
               parentOfElement(world, outcome.value[i]) = windowRecord.element)

C21_SuspendedWitness ==
  /\ inFixup
  /\ call.pc = "yield2"
  /\ Len(call.log) = 2 * Len(call.tabElements)
  /\ offsetOf(call.params) = 1
  /\ ~isAttached(world, call.container)
  /\ call.before.document = <<call.container>>

\* the tabs for which step 2 has called TabsUpdate.updateTab with forceApply,
\* and those for which it has called it without
forcedResyncs ==
  SelectSeq(call.applied, LAMBDA made : made.fn = "updateTab" /\ made.forceApply)

incrementalUpdates ==
  SelectSeq(call.applied, LAMBDA made : made.fn = "updateTab" /\ ~made.forceApply)

\* the pairs step 2 has processed so far
processedInStep2 == Len(SelectSeq(call.log, LAMBDA pair : pair[1] = 2))

\* C22: with dirty set, step 2 forces the resync of each tab once, in the
\* order of the pairs, so N times when the pass is through, and with dirty
\* not set it never forces one; it never makes an update that is not forced.
C22_DirtyForcesResyncPerTab ==
  call # Idle =>
    /\ incrementalUpdates = <<>>
    /\ IF call.params.shouldUpdate
       THEN /\ Len(forcedResyncs) = processedInStep2
            /\ \A i \in 1..Len(forcedResyncs) : forcedResyncs[i].tab = call.tabs[i].id
            /\ call.pc = "reattach" => Len(forcedResyncs) = Len(call.tabElements)
       ELSE forcedResyncs = <<>>

C22_TwoDirtyPairsWitness ==
  /\ call # Idle
  /\ call.pc = "reattach"
  /\ call.params.shouldUpdate
  /\ Len(call.tabElements) = 2
  /\ Len(forcedResyncs) = 2
  /\ Len(call.applied) = 6

\* the pass was entered with sequences of different lengths
enteredMismatched == Len(containers[1].children) # Len(tabs)

\* C23: fixupTabsRestoredFromCache entered with a number of elements that
\* differs from the number of tab records throws (line 175) as its first
\* step: no element is bound or gets an attribute, no tab gets an element,
\* no pair is processed, no progress is reported and no frame is awaited.
C23_MismatchThrowsBeforeAnyPair ==
  enteredMismatched =>
    /\ \A e \in DOMAIN elements : elements[e] = unboundElement
    /\ \A t \in DOMAIN tabElement : tabElement[t] = Null
    /\ document = <<>>
    /\ IF call = Idle
       THEN outcome.done /\ outcome.threw /\ outcome.at = 175 /\ world = outcome.before
       ELSE /\ call.pc = "fixup"
            /\ call.log = <<>>
            /\ call.applied = <<>>
            /\ call.reports = <<>>
            /\ call.yields = <<>>

C23_ThrownWitness ==
  /\ enteredMismatched
  /\ call = Idle
  /\ outcome.done
  /\ outcome.threw
  /\ outcome.at = 175
  /\ Len(tabs) = 3
  /\ Len(containers[1].children) = 2

\* the time that has passed since the pass started or came back from its
\* last yield
elapsed == call.now - call.lastDraw

C25_ProgressInRangeAndRising ==
  call # Idle =>
    /\ \A i \in 1..Len(call.reports) : call.reports[i] \in 33..100
    /\ \A i \in 1..(Len(call.reports) - 1) : call.reports[i] <= call.reports[i + 1]

C25_ReportsInBothStepsWitness ==
  /\ call # Idle
  /\ call.pc = "yield2"
  /\ call.reports = <<39, 44, 50>>
  /\ Len(call.log) = 5

\* C26: whenever progress is reported, the count equals the number of pairs
\* processed so far in both steps, out of 2 x elementCount, and a report made
\* after the last pair of step 2 shows 100.
C26_CounterCountsPairs ==
  (call # Idle /\ call.pc \in {"yield1", "yield2"}) =>
    /\ call.maxCount = 2 * Len(call.tabElements)
    /\ call.count = Len(call.log)
    /\ Len(call.log) = call.maxCount => call.reports[Len(call.reports)] = 100

\* C27: with frames that always come, a call that has entered the fixup ends:
\* it returns or throws.  The pairs the pass has processed are at every
\* moment the first ones of step 1 over all elements followed by step 2 over
\* all elements, each once, whatever yields fall between them, and all of
\* them when the pass is through.
C27_RunsToCompletion ==
  /\ (call # Idle) ~> (call = Idle /\ outcome.done)
  /\ [](call # Idle =>
          /\ Len(call.log) <= 2 * Len(call.tabElements)
          /\ call.log = SubSeq(allPairs(Len(call.tabElements)), 1, Len(call.log))
          /\ call.pc = "reattach" => Len(call.log) = 2 * Len(call.tabElements))
  /\ [](succeeded => Len(outcome.value) = Len(affectedTabs))

C27_YieldedAndCompleteWitness ==
  /\ call # Idle
  /\ call.pc = "reattach"
  /\ Len(call.yields) = 6
  /\ call.log = allPairs(3)

\* the world with configs.debug set the other way
debugFlipped(w) == [w EXCEPT !.configs.debug = ~@]

\* the world without its configuration
restOf(w) == [field \in DOMAIN w \ {"configs"} |-> w[field]]

\* the arguments of the call that has just started
startedParams == IF call' = Idle THEN outcome'.params ELSE call'.params

\* C28: configs.debug has no influence on a restoration.  Whenever a call
\* starts, the same call in the same document and stores with the flag set
\* the other way ends at the same line in the same way (throws, returns
\* empty, or enters the fixup with the same container and elements) and
\* leaves the same document and stores; and whenever a call reattaches its
\* container and returns, it leaves the same document and stores as with the
\* flag set the other way.  The steps of the fixup do not read the flag.
C28_DebugHasNoInfluence ==
  /\ [][calls' = calls + 1
          => LET other == restoreTabsFromCacheInternal(debugFlipped(world), startedParams)
             IN /\ restOf(other.world) = restOf(world')
                /\ IF call' = Idle
                   THEN /\ other.kind \in {"threw", "returned"}
                        /\ (other.kind = "threw") = outcome'.threw
                        /\ other.at = outcome'.at
                   ELSE /\ other.kind = "fixup"
                        /\ other.container = call'.container
                        /\ other.tabElements = call'.tabElements]_vars
  /\ [][(call # Idle /\ call.pc = "reattach")
          => restOf(reattached(debugFlipped(world), call.container)) = restOf(world')]_vars

C28_DebugRunsWitness ==
  /\ configs.debug
  /\ succeeded
  /\ calls = 2
  /\ offsetOf(outcome.params) = 1
  /\ outcome.before.windowRecord.element = 2

\* the last call was a tail restoration of a window that has a record
tailCallEnded ==
  outcome.done /\ offsetOf(outcome.params) > 0 /\ outcome.before.windowRecord # Undefined

\* the last call was turned away by the check of lines 86-90: it returned an
\* empty array from there and changed nothing
rejected ==
  /\ ~outcome.threw
  /\ outcome.at = 89
  /\ outcome.value = <<>>
  /\ world = outcome.before

\* the number of children of the container the last call found, -1 for none
childrenFound ==
  LET container == outcome.before.windowRecord.element
  IN IF container = Null THEN -1 ELSE Len(outcome.before.containers[container].children)

tailSucceeded == succeeded /\ offsetOf(outcome.params) > 0

\* C30: after a successful tail restoration the children of the container are
\* its first offset children of before, with their ids and bindings as they
\* were, followed by the returned elements and nothing else, also when the
\* container held more children than the window has tabs or held them in
\* another order.
C30_RestoredElementsReplaceRange ==
  tailSucceeded =>
    LET before    == outcome.before
        offset    == offsetOf(outcome.params)
        container == before.windowRecord.element
        kept      == SubSeq(before.containers[container].children, 1, offset)
    IN /\ containers[container].children = kept \o outcome.value
       /\ \A i \in 1..Len(kept) : elements[kept[i]] = before.elements[kept[i]]

\* the pairs step 1 has processed so far
processedInStep1 == Len(SelectSeq(call.log, LAMBDA pair : pair[1] = 1))

\* C31: step 2 applies no state (applyStatesToElement,
\* applyCollapseExpandStateToElement, forced update) for any pair before step 1
\* has bound every pair, and each step takes the pairs in index order: the
\* k-th pair of a step is pair k, and the calls of step 2 are made for the
\* tabs of the pairs in that order.
C31_StepsInSequence ==
  call # Idle =>
    /\ (call.applied # <<>> \/ processedInStep2 > 0) => processedInStep1 = Len(call.tabElements)
    /\ \A i \in 1..Len(call.log) :
         call.log[i] = IF i <= processedInStep1 THEN <<1, i>> ELSE <<2, i - processedInStep1>>
    /\ \A i \in 1..Len(call.applied) :
         /\ call.applied[i].tab = call.tabs[((i - 1) \div (Len(call.applied) \div processedInStep2)) + 1].id
         /\ elements[call.tabElements[processedInStep1]].apiTab # Null

C31_Step2AfterYieldsWitness ==
  /\ call # Idle
  /\ call.pc = "step2"
  /\ call.log = <<<<1, 1>>, <<1, 2>>, <<1, 3>>, <<2, 1>>>>
  /\ Len(call.yields) = 2
  /\ Len(call.applied) = 3

\* C32: in step 1, when Tab.init runs for a tab, the element of the pair
\* already carries the id "tab-<tab id>" and is the element of that tab;
\* Tab.init runs once per pair, in pair order, and never for a tab whose
\* element is not bound.
C32_BoundBeforeInit ==
  call # Idle =>
    /\ Len(call.inits) = processedInStep1
    /\ \A i \in 1..Len(call.inits) :
         /\ call.inits[i].tab = call.tabs[i].id
         /\ call.inits[i].element # Null
         /\ call.inits[i].element = call.tabElements[i]
         /\ call.inits[i].id = "tab-" \o numberToString(call.tabs[i].id)

C32_InitAfterRebindWitness ==
  /\ call # Idle
  /\ offsetOf(call.params) = 1
  /\ Len(call.inits) = 2
  /\ call.before.tabElement[3] = 3
  /\ call.inits[2] = [tab |-> 3, element |-> 5, id |-> "tab-3"]

\* the pair i of the pass is bound in full: the element has its id, the tab
\* and the element point at each other, and the element carries the tab id
\* and the window id
fullyBound(i) ==
  LET tab     == call.tabs[i]
      element == call.tabElements[i]
  IN /\ elements[element].id = "tab-" \o numberToString(tab.id)
     /\ elements[element].apiTab = tab.id
     /\ tabElement[tab.id] = element
     /\ elements[element].apiTabId = orMinusOne(tab.id)
     /\ elements[element].apiWindowId = orMinusOne(tab.windowId)

\* nothing of the pair i is set: the element is as it was parsed and is not
\* the element of the tab
untouched(i) ==
  /\ elements[call.tabElements[i]] = unboundElement
  /\ tabElement[call.tabs[i].id] # call.tabElements[i]

\* C33: whenever the pass waits for a frame, in step 1 or in step 2, every
\* pair is either bound in full or untouched, the bound ones being the pairs
\* step 1 has processed.
C33_PairsBoundAtomically ==
  (call # Idle /\ call.pc \in {"yield1", "yield2"}) =>
    \A i \in 1..Len(call.tabElements) :
      IF i <= processedInStep1 THEN fullyBound(i) ELSE untouched(i)

C33_SuspendedHalfwayWitness ==
  /\ call # Idle
  /\ call.pc = "yield1"
  /\ Len(call.tabElements) = 3
  /\ fullyBound(1)
  /\ untouched(2)
  /\ untouched(3)

\* the elements that stand in the document: the children of its containers
elementsInDocument ==
  UNION {rangeOf(containers[document[i]].children) : i \in 1..Len(document)}

\* C34: a call runs from its start up to the fixup without a stop.  The state
\* that follows the start of a call is the end of the call or the fixup with
\* the element count found equal and the container already out of the
\* document; so the document never shows, in any state, an element that was
\* parsed from the cache and not yet validated and fixed up.
C34_NoStopBeforeFixup ==
  /\ [][calls' = calls + 1
          => \/ call' = Idle /\ outcome'.done
             \/ /\ call' # Idle
                /\ call'.pc = "fixup"
                /\ Len(call'.tabElements) = Len(call'.tabs)
                /\ call'.container \notin rangeOf(document')]_vars
  /\ [](\A e \in elementsInDocument : elements[e] # unboundElement)

C34_FullInsertionWitness ==
  /\ call # Idle
  /\ call.pc = "fixup"
  /\ offsetOf(call.params) = 0
  /\ Len(call.tabElements) = 3
  /\ call.before.document = <<1>>
  /\ call.container = 2
  /\ windowRecord.element = 2
  /\ document = <<>>

\* C35: the fixup is entered from restoreTabsFromCacheInternal with as many
\* elements as tab records only, so no call ends with the error of line 175;
\* and every call that reaches the insertion with a cache whose item count
\* differs from the number of affected tabs ends at the count check of lines
\* 141-145 with an empty array.
C35_MismatchCaughtBeforeFixup ==
  /\ call # Idle => Len(call.tabElements) = Len(call.tabs)
  /\ outcome.done => outcome.at # 175
  /\ (outcome.done /\ insertionReached /\ cachedItemCount # Len(affectedTabs))
       => (outcome.at = 144 /\ ~outcome.threw /\ outcome.value = <<>>)

\* the place of a node among the children of the tab bar, counted from 0
placeOf(nodes, node) == arrayIndexOf(nodes, node)

\* C36: after a successful restoration the container stands where it was put:
\* after a tail restoration the tab bar holds the same children in the same
\* order as before the call; after a full restoration the container is the
\* last child when the caller gave no insertion point, and stands right
\* before the node of the insertion point when the caller gave one.
C36_ContainerKeepsItsPlace ==
  succeeded =>
    LET container == windowRecord.element
        point     == outcome.params.insertionPoint
    IN IF offsetOf(outcome.params) > 0 THEN document = outcome.before.document
       ELSE IF point = Undefined THEN document[Len(document)] = container
       ELSE placeOf(document, container) + 1 = placeOf(document, point.before)

\* the number of entries of a signature: its lines
entriesOf(signature) == Len(split(signature, "\n"))

\* C37: for a cache whose signature can be read and every ignoreCount k, the
\* signature read from trimTabsCache(cache, k) is trimSignature of the
\* signature read from the cache, with the same number of entries.
C37_TrimmersAgree ==
  (trimmedCache.done /\ ~signatureFromTabsCache(cache).threw) =>
    LET k       == trimmedCache.count
        ofCache == signatureFromTabsCache(trimmedCache.value)
        trimmed == trimSignature(signatureFromTabsCache(cache).value, k)
    IN /\ ~ofCache.threw
       /\ ofCache.value = trimmed
       /\ entriesOf(ofCache.value) = entriesOf(trimmed)

\* the pass of the call is under way
inPass == call.pc \in {"fixup", "step1", "step2", "yield1", "yield2"}

\* the line at which the step the pass is at raises its error
raisedAt ==
  CASE call.pc = "fixup" -> 175
    [] call.pc = "step1" -> 187
    [] call.pc = "step2" -> 201
    [] OTHER             -> 0

\* C38: a pass that throws ends the call with the error it raised, handed on
\* to the caller: no elements are returned, and the container the pass worked
\* on is not in the document, neither at once nor as long as no other call
\* is made.
C38_FixupErrorRethrown ==
  /\ [][(inPass /\ outcome'.done /\ outcome'.threw) =>
          /\ call' = Idle
          /\ outcome'.at = raisedAt
          /\ outcome'.value = <<>>
          /\ document' = document
          /\ call.container \notin rangeOf(document')]_vars
  /\ [](outcome.done /\ outcome.threw /\ outcome.at \in {175, 187, 201}
          => windowRecord.element \notin rangeOf(document))

C38_ThrownWhileApplyingWitness ==
  /\ outcome.done /\ outcome.threw /\ outcome.at = 201
  /\ windowRecord.element \notin rangeOf(document)
  /\ Len(containers[windowRecord.element].children) = 2

\* the last call that ended ran while another one was suspended
endedDuringWait == outcome.done /\ "during" \in DOMAIN outcome

\* the elements of the tab bar's containers, container by container
RECURSIVE elementsOf(_)
elementsOf(nodes) ==
  IF Len(nodes) = 0 THEN <<>>
  ELSE containers[nodes[1]].children \o elementsOf(Tail(nodes))

\* every element of the document belongs to one tab record, and no two of them
\* to the same one
boundOneToOne ==
  LET shown == elementsOf(document)
  IN /\ \A i \in 1..Len(shown) : elements[shown[i]].apiTab \in {tabs[j].id : j \in 1..Len(tabs)}
     /\ \A i, j \in 1..Len(shown) : elements[shown[i]].apiTab = elements[shown[j]].apiTab => i = j

\* C39: a second call that starts while the first one waits for a frame never
\* throws, the first call then ends without an error, and the document then
\* holds exactly one container of the window, whose elements belong to one
\* tab record each.
C39_ReentrantCallsBothFinish ==
  /\ [](endedDuringWait => ~outcome.threw)
  /\ [][(endedDuringWait /\ outcome'.done /\ ~endedDuringWait') =>
          /\ ~outcome'.threw
          /\ Len(document') = 1
          /\ containers'[document'[1]].windowId = windowId
          /\ boundOneToOne']_vars

\* a click was handled
clickStep == events' # events /\ menuEvent'.kind = "clicked"

\* the menu of the browser action was shown
showStep ==
  events' # events /\ menuEvent'.kind = "shown" /\ "browser_action" \in menuEvent'.contexts

\* the item is checked by the store: its key holds its value, or true when
\* the item has no value
checkedByStore(item, store) ==
  IF "value" \in DOMAIN item THEN store[item.key] = item.value
  ELSE store[item.key] = Bool(TRUE)

\* C40: a click on a created item with a key sets the key to the item's value,
\* or to the negation of what it held when the item has no value, and leaves
\* the other keys alone; a click on an id that was not created (that of an
\* item skipped for visible === false among them) or on an item without a
\* key leaves the store as it is; and a show of the menu reports every
\* created radio and checkbox item, checked exactly when the store says so.
C40_ClicksSetAndShowsReport ==
  /\ [][clickStep =>
          LET id == menuEvent'.menuItemId
          IN IF id \in DOMAIN mItemsById /\ "key" \in DOMAIN mItemsById[id]
             THEN LET item == mItemsById[id]
                  IN /\ configs'[item.key] = IF "value" \in DOMAIN item THEN item.value
                                             ELSE Bool(~configs[item.key].bool)
                     /\ \A key \in DOMAIN configs \ {item.key} : configs'[key] = configs[key]
             ELSE configs' = configs]_vars
  /\ [][showStep =>
          \A id \in DOMAIN mItemsById :
            typeOf(mItemsById[id]) \in {"radio", "checkbox"} =>
              \E i \in 1..Len(menuEvent'.updates) :
                /\ menuEvent'.updates[i].id = id
                /\ menuEvent'.updates[i].params.checked
                     = Bool(checkedByStore(mItemsById[id], configs))]_vars
  /\ [](menuEvent.kind # "none" =>
          \A i \in 1..Len(mItems) :
            ("visible" \in DOMAIN mItems[i] /\ mItems[i].visible = Bool(FALSE))
              => ("browserActionItem:" \o numberToString(i - 1)) \notin DOMAIN mItemsById)

C40_ShownAfterEventsWitness ==
  /\ menuEvent.kind = "shown"
  /\ events = MaxMenuEvents
  /\ configs.fixupTreeOnTabVisibilityChanged = Bool(FALSE)
  /\ configs.autoAttachOnNewTabCommand = Num(1)
  /\ "browserActionItem:2" \notin DOMAIN mItemsById
  /\ \E i \in 1..Len(menuEvent.updates) :
       /\ menuEvent.updates[i].id = "browserActionItem:1:1"
       /\ menuEvent.updates[i].params.checked = Bool(TRUE)

=============================================================================
